---------------------------- MODULE Spec2Model ----------------------------
(***************************************************************************)
(* Primer-BLAST submission and validation scripts.                         *)
(*                                                                         *)
(*   src/validate_records_from_primerblast.py  PrimerBlastValidator,       *)
(*                                              validate_all_jobs          *)
(*   src/submit_primerblast_jobs.py            PrimerBlastSubmitter,       *)
(*                                              submit_primer_jobs         *)
(*                                                                         *)
(* Python values.  A dict is a function whose DOMAIN is the set of keys    *)
(* present.  A number-or-null is an integer, with None for null (and for   *)
(* a key that .get() does not find) and NaN for a float that int() cannot  *)
(* convert; extracted coordinates are matches of \d+, hence >= 0.  A       *)
(* string is a sequence of one-letter strings; NoneStr is null.            *)
(***************************************************************************)
EXTENDS Integers, Sequences, FiniteSets, TLC

VARIABLES
    \* one call of find_matching_pair
    m_all_pairs,      \* its argument all_pairs
    m_job_info,       \* its argument job_info
    m_result,         \* what the call did: not yet called, returned, raised
    \* calls of validate_job on one job record
    j_job_info,       \* the job record, mutated in place by each call
    j_last,           \* the last call: its response, what it did, the
                      \* record before it, the response of the call
                      \* before it
    j_calls,          \* the number of calls so far
    \* one run of validate_all_jobs
    jobs_input,       \* the job records as json.load read them
    start_line,       \* the argument start_line
    end_line,         \* the argument end_line: <<>> for None, <<n>> for n
    checkpoint_interval,
    jobs_subset,      \* the job records, each mutated in place by its worker
    future,           \* per job: pending, running, returned, raised,
                      \* collected (yielded by as_completed)
    fetched,          \* per job: the response its request met
    fetch_count,      \* per job: the number of requests.get calls for it
    validated_jobs,   \* the pre-sized slot array
    completed_count,
    main,             \* the main thread: collect, unwinding, finished,
                      \* aborted
    output_file,      \* every write of output_path, in order
    \* one run of submit_primer_jobs
    df_subset,        \* the rows of the input table
    submit_future,    \* per row: pending, running, returned, raised,
                      \* collected
    posted,           \* per row: the response its request met
    submit_result,    \* per row: what submit_job returned
    completed_jobs,
    count,
    submit_main,      \* the main thread: collect, unwinding, finished,
                      \* aborted
    jobs_file,        \* every write of output_path, in order
    \* the rate limiter of one PrimerBlastValidator and the clock
    now,              \* time.time()
    last_request_time,
    rate_limit_lock,  \* the job whose worker holds the lock, 0 when free
    rate_pc,          \* per job: where its worker is in fetch_results
    wake,             \* per job: the time its sleep ends at the earliest
    granted,          \* the values written to last_request_time, in order
    request_start,    \* per job: the time its requests.get started
    \* one call of extract_all_primer_pairs or _extract_single_pair
    x_html,           \* its argument html_content
    x_result,         \* what the call returned
    \* one call of submit_job
    s_row_data,       \* its argument row_data
    s_response,       \* the response its POST meets
    s_result,         \* what the call did
    \* calls of _determine_product_size_range on two product sizes
    r_sizes,          \* the two arguments
    r_bands           \* the two results

matchVars == <<m_all_pairs, m_job_info, m_result>>
jobVars == <<j_job_info, j_last, j_calls>>
batchVars == <<jobs_input, start_line, end_line, checkpoint_interval,
               jobs_subset, future, fetched, fetch_count, validated_jobs,
               completed_count, main, output_file>>
submitVars == <<df_subset, submit_future, posted, submit_result,
                completed_jobs, count, submit_main, jobs_file>>
rateVars == <<now, last_request_time, rate_limit_lock, rate_pc, wake,
              granted, request_start>>
callVars == <<x_html, x_result, s_row_data, s_response, s_result, r_sizes,
              r_bands>>
vars == <<matchVars, jobVars, batchVars, submitVars, rateVars, callVars>>

---------------------------------------------------------------------------
(* Python values *)

None == -1
NaN == -2
NoneStr == <<"None">>
\* a float NaN where a string is expected (an empty cell of the input table)
NaNStr == <<"NaN">>

\* dict.get(key): None when the key is absent
Get(d, key) == IF key \in DOMAIN d THEN d[key] ELSE None

\* d[key] = value
Put(d, key, value) == (key :> value) @@ d

\* int(x) on a number: raises ValueError on a NaN, and is x on an integer
\* (a JSON integer, or a float with an integral value)
IntRaises(x) == x = NaN
int(x) == x

---------------------------------------------------------------------------
(* PrimerBlastValidator.find_matching_pair *)

NonePair == [is_none |-> TRUE]

\* one of the three checks of the loop body: "raise" when int() raises,
\* else the value of the `or` chain
MatchCheck(expected, extracted) ==
    IF expected = None \/ extracted = None THEN "true"
    ELSE IF IntRaises(expected) \/ IntRaises(extracted) THEN "raise"
    ELSE IF int(expected) = int(extracted) THEN "true" ELSE "false"

MatchCheckNoNull(expected, extracted) ==
    IF expected = None THEN "true"
    ELSE IF extracted = None THEN "false"
    ELSE IF IntRaises(expected) \/ IntRaises(extracted) THEN "raise"
    ELSE IF int(expected) = int(extracted) THEN "true" ELSE "false"

RECURSIVE FindFrom(_, _, _)
FindFrom(all_pairs, job_info, i) ==
    IF i > Len(all_pairs)
    THEN [raised |-> FALSE,
          pair |-> IF Len(all_pairs) > 0 THEN all_pairs[1] ELSE NonePair,
          found |-> FALSE]
    ELSE LET pair == all_pairs[i]
             fwd_match == MatchCheck(Get(job_info, "left_primer_start"),
                                     pair.forward_start)
             rev_match == MatchCheck(Get(job_info, "right_primer_start"),
                                     pair.reverse_start)
             size_match == MatchCheck(Get(job_info, "product_size"),
                                      pair.product_length)
         IN  IF "raise" \in {fwd_match, rev_match, size_match}
             THEN [raised |-> TRUE, pair |-> NonePair, found |-> FALSE]
             ELSE IF {fwd_match, rev_match, size_match} = {"true"}
                  THEN [raised |-> FALSE, pair |-> pair, found |-> TRUE]
                  ELSE FindFrom(all_pairs, job_info, i + 1)

RECURSIVE FindLastFrom(_, _, _)
FindLastFrom(all_pairs, job_info, i) ==
    IF i = 0
    THEN [raised |-> FALSE,
          pair |-> IF Len(all_pairs) > 0 THEN all_pairs[1] ELSE NonePair,
          found |-> FALSE]
    ELSE LET pair == all_pairs[i]
             fwd_match == MatchCheck(Get(job_info, "left_primer_start"),
                                     pair.forward_start)
             rev_match == MatchCheck(Get(job_info, "right_primer_start"),
                                     pair.reverse_start)
             size_match == MatchCheck(Get(job_info, "product_size"),
                                      pair.product_length)
         IN  IF "raise" \in {fwd_match, rev_match, size_match}
             THEN [raised |-> TRUE, pair |-> NonePair, found |-> FALSE]
             ELSE IF {fwd_match, rev_match, size_match} = {"true"}
                  THEN [raised |-> FALSE, pair |-> pair, found |-> TRUE]
                  ELSE FindLastFrom(all_pairs, job_info, i - 1)

find_matching_pair_last(all_pairs, job_info) ==
    FindLastFrom(all_pairs, job_info, Len(all_pairs))

find_matching_pair_no_fallback(all_pairs, job_info) ==
    LET r == FindFrom(all_pairs, job_info, 1)
    IN  IF r.raised \/ r.found THEN r
        ELSE [raised |-> FALSE, pair |-> NonePair, found |-> FALSE]

find_matching_pair_empty_found(all_pairs, job_info) ==
    IF all_pairs = <<>>
    THEN [raised |-> FALSE, pair |-> NonePair, found |-> TRUE]
    ELSE FindFrom(all_pairs, job_info, 1)

find_matching_pair(all_pairs, job_info) == FindFrom(all_pairs, job_info, 1)

---------------------------------------------------------------------------
(* Inputs of a call of find_matching_pair *)

MaxPairs == 2

\* a primer pair as _extract_single_pair builds it
Pair(fs, rs, pl, idx) ==
    [forward_start |-> fs,
     forward_end |-> IF fs = None THEN None ELSE fs + 1,
     forward_sequence |-> IF fs = None THEN NoneStr ELSE <<"A", "T">>,
     reverse_start |-> rs,
     reverse_end |-> IF rs = None THEN None ELSE rs - 1,
     reverse_sequence |-> IF rs = None THEN NoneStr ELSE <<"C", "G">>,
     product_length |-> pl,
     pair_index |-> idx]

ForwardStarts == {None, 1, 2}
ReverseStarts == {None, 5}
ProductLengths == {None, 4}

Coords == ForwardStarts \X ReverseStarts \X ProductLengths

PairLists ==
    UNION { { [i \in 1..n |-> Pair(c[i][1], c[i][2], c[i][3], i)] :
              c \in [1..n -> Coords] } : n \in 0..MaxPairs }

ExpectedForward == {None, NaN, 1, 2}
ExpectedReverse == {None, 5, 6}
ExpectedSize == {None, NaN, 4}

\* the expected values of a job record; a null value and an absent key
AbsentKeys == {{}, {"left_primer_start"}, {"product_size"}}

ExpectedDicts ==
    { [k \in {"left_primer_start", "right_primer_start", "product_size"} \ a |->
          CASE k = "left_primer_start" -> e[1]
            [] k = "right_primer_start" -> e[2]
            [] OTHER -> e[3]] :
      e \in ExpectedForward \X ExpectedReverse \X ExpectedSize,
      a \in AbsentKeys }

NotCalled == [raised |-> FALSE, pair |-> NonePair, found |-> FALSE,
              called |-> FALSE]

MatchInit ==
    /\ m_all_pairs \in PairLists
    /\ m_job_info \in ExpectedDicts
    /\ m_result = NotCalled

\* no call of find_matching_pair is under way
MatchIdle ==
    /\ m_all_pairs = <<>>
    /\ m_job_info = <<>>
    /\ m_result = NotCalled

\* no call of validate_job is under way
JobIdle ==
    /\ j_job_info = <<>>
    /\ j_last = <<>>
    /\ j_calls = 0

\* validate_all_jobs is not running
BatchIdle ==
    /\ jobs_input = <<>>
    /\ start_line = 0
    /\ end_line = <<>>
    /\ checkpoint_interval = 0
    /\ jobs_subset = <<>>
    /\ future = <<>>
    /\ fetched = <<>>
    /\ fetch_count = <<>>
    /\ validated_jobs = <<>>
    /\ completed_count = 0
    /\ main = "idle"
    /\ output_file = <<>>

\* submit_primer_jobs is not running
SubmitIdle ==
    /\ df_subset = <<>>
    /\ submit_future = <<>>
    /\ posted = <<>>
    /\ submit_result = <<>>
    /\ completed_jobs = <<>>
    /\ count = 0
    /\ submit_main = "idle"
    /\ jobs_file = <<>>

\* no fetch_results call is under way and the clock is not watched
RateIdle ==
    /\ now = 0
    /\ last_request_time = 0
    /\ rate_limit_lock = 0
    /\ rate_pc = <<>>
    /\ wake = <<>>
    /\ granted = <<>>
    /\ request_start = <<>>

\* no call of the extraction functions or of submit_job is under way
CallIdle ==
    /\ x_html = <<>>
    /\ x_result = <<>>
    /\ s_row_data = <<>>
    /\ s_response = <<>>
    /\ s_result = <<>>
    /\ r_sizes = <<>>
    /\ r_bands = <<>>

MatchCall ==
    /\ ~m_result.called
    /\ m_result' = Put(find_matching_pair(m_all_pairs, m_job_info),
                       "called", TRUE)
    /\ UNCHANGED <<m_all_pairs, m_job_info>>
    /\ UNCHANGED <<jobVars, batchVars, submitVars, rateVars, callVars>>

InitMatch ==
    MatchInit /\ JobIdle /\ BatchIdle /\ SubmitIdle /\ RateIdle /\ CallIdle

SpecMatch == InitMatch /\ [][MatchCall]_vars

---------------------------------------------------------------------------
(* find_matching_pair: the claims *)

\* one null-tolerant check as the specification words it: the expected value
\* is absent, the extracted field is null, or the two integers are equal
CheckHolds(expected, extracted) ==
    \/ expected = None
    \/ extracted = None
    \/ (expected # NaN /\ expected = extracted)

Satisfies(pair, job_info) ==
    /\ CheckHolds(Get(job_info, "left_primer_start"), pair.forward_start)
    /\ CheckHolds(Get(job_info, "right_primer_start"), pair.reverse_start)
    /\ CheckHolds(Get(job_info, "product_size"), pair.product_length)

\* every expected value is an integer or absent
IntegerExpected(job_info) ==
    \A k \in {"left_primer_start", "right_primer_start", "product_size"} :
        Get(job_info, k) # NaN

MatchReturned == m_result.called /\ ~m_result.raised

\* C1: on a non-empty list find_matching_pair returns the first pair, in
\* extraction order, that satisfies the three null-tolerant checks, tagged
\* True: the pair returned with True is a satisfying pair with no satisfying
\* pair before it, and whenever some pair satisfies the checks that one is
\* returned.  With integer (or absent) expected values the call returns.
C1_FirstMatchReturned ==
    (m_result.called /\ m_all_pairs # <<>>) =>
        /\ IntegerExpected(m_job_info) => ~m_result.raised
        /\ ~m_result.raised =>
              \A i \in 1..Len(m_all_pairs) :
                  ( /\ Satisfies(m_all_pairs[i], m_job_info)
                    /\ \A j \in 1..(i - 1) :
                          ~Satisfies(m_all_pairs[j], m_job_info) )
                  => ( /\ m_result.found
                       /\ m_result.pair = m_all_pairs[i] )

\* C1 witness: pair 1 fails a check, pair 2 satisfies all three, and pair 2
\* came back tagged True
C1_Witness ==
    /\ MatchReturned
    /\ Len(m_all_pairs) = 2
    /\ ~Satisfies(m_all_pairs[1], m_job_info)
    /\ Satisfies(m_all_pairs[2], m_job_info)
    /\ Get(m_job_info, "left_primer_start") = 2
    /\ m_result.found
    /\ m_result.pair = m_all_pairs[2]

\* C2: on a non-empty list of which no pair satisfies the three checks,
\* find_matching_pair returns the pair at list position 0 tagged False
C2_FallbackFirstPair ==
    ( /\ m_result.called
      /\ m_all_pairs # <<>>
      /\ IntegerExpected(m_job_info)
      /\ \A i \in 1..Len(m_all_pairs) :
            ~Satisfies(m_all_pairs[i], m_job_info) )
    => ( /\ ~m_result.raised
         /\ ~m_result.found
         /\ m_result.pair = m_all_pairs[1] )

\* C2 witness: two pairs, neither satisfies, the first came back tagged False
C2_Witness ==
    /\ MatchReturned
    /\ Len(m_all_pairs) = 2
    /\ \A i \in 1..2 : ~Satisfies(m_all_pairs[i], m_job_info)
    /\ ~m_result.found
    /\ m_result.pair = m_all_pairs[1]

\* C3: on an empty list find_matching_pair returns (None, False), whatever
\* the expected values of the job record
C3_EmptyListNoPair ==
    (m_result.called /\ m_all_pairs = <<>>) =>
        ( /\ ~m_result.raised
          /\ m_result.pair = NonePair
          /\ ~m_result.found )

\* C3 witness: the call on an empty list with all three expected values set
C3_Witness ==
    /\ MatchReturned
    /\ m_all_pairs = <<>>
    /\ m_result.pair = NonePair
    /\ Get(m_job_info, "left_primer_start") = 1
    /\ Get(m_job_info, "right_primer_start") = 5
    /\ Get(m_job_info, "product_size") = NaN


---------------------------------------------------------------------------
(* Strings and result pages *)

\* a str-or-null read with dict.get
GetStr(d, key) == IF key \in DOMAIN d THEN d[key] ELSE NoneStr

TruthyNotNone(s) == s # NoneStr

\* bool(s) of a str-or-null
Truthy(s) == s # NoneStr /\ s # <<>>

UpperChar(ch) ==
    CASE ch = "a" -> "A"
      [] ch = "t" -> "T"
      [] ch = "c" -> "C"
      [] ch = "g" -> "G"
      [] ch = "n" -> "N"
      [] OTHER -> ch

\* str.upper
upper(s) == [i \in DOMAIN s |-> UpperChar(s[i])]

\* A result page is a sequence of tokens: an <h3>Primer pair N</h3> header,
\* a forward-primer, reverse-primer or product-length table row in the
\* layout the three row patterns match, or any other text.
H3 == [kind |-> "h3"]
Fwd(seq, start, stop) ==
    [kind |-> "fwd", seq |-> seq, start |-> start, stop |-> stop]
Rev(seq, start, stop) ==
    [kind |-> "rev", seq |-> seq, start |-> start, stop |-> stop]
Prod(length) == [kind |-> "prod", length |-> length]
Text(text) == [kind |-> "text", text |-> text]

\* str.lower on the text of a page
LowerText(text) ==
    CASE text = "Processing" -> "processing"
      [] text = "QUEUED" -> "queued"
      [] text = "No primer pairs found" -> "no primer pairs found"
      [] OTHER -> text

\* needle in html.lower()
InLower(needle, html) ==
    \E i \in DOMAIN html :
        html[i].kind = "text" /\ LowerText(html[i].text) = needle

\* needle in html
InText(needle, html) ==
    \E i \in DOMAIN html : html[i].kind = "text" /\ html[i].text = needle

\* fetch_results returns None on any exception of requests.get or
\* raise_for_status, else the body
NoneHtml == <<[kind |-> "None"]>>
fetch_results(response) == IF response.ok THEN response.text ELSE NoneHtml

---------------------------------------------------------------------------
(* PrimerBlastValidator._extract_single_pair, extract_all_primer_pairs *)

\* re.search: the first token of the kind in the section, 0 when none
FirstOf(section, kind) ==
    IF \E i \in DOMAIN section : section[i].kind = kind
    THEN CHOOSE i \in DOMAIN section :
            /\ section[i].kind = kind
            /\ \A j \in 1..(i - 1) : section[j].kind # kind
    ELSE 0

_extract_single_pair_forward_first(section, pair_index) ==
    LET f == FirstOf(section, "fwd")
        r == IF f = 0 THEN 0 ELSE FirstOf(section, "rev")
        p == IF f = 0 THEN 0 ELSE FirstOf(section, "prod")
    IN  [forward_start |-> IF f = 0 THEN None ELSE int(section[f].start),
         forward_end |-> IF f = 0 THEN None ELSE int(section[f].stop),
         forward_sequence |-> IF f = 0 THEN NoneStr ELSE section[f].seq,
         reverse_start |-> IF r = 0 THEN None ELSE int(section[r].start),
         reverse_end |-> IF r = 0 THEN None ELSE int(section[r].stop),
         reverse_sequence |-> IF r = 0 THEN NoneStr ELSE section[r].seq,
         product_length |-> IF p = 0 THEN None ELSE int(section[p].length),
         pair_index |-> pair_index]

\* lines 86-157: each of the three rows is searched for in the whole section
_extract_single_pair(section, pair_index) ==
    LET f == FirstOf(section, "fwd")
        r == FirstOf(section, "rev")
        p == FirstOf(section, "prod")
    IN  [forward_start |-> IF f = 0 THEN None ELSE int(section[f].start),
         forward_end |-> IF f = 0 THEN None ELSE int(section[f].stop),
         forward_sequence |-> IF f = 0 THEN NoneStr ELSE section[f].seq,
         reverse_start |-> IF r = 0 THEN None ELSE int(section[r].start),
         reverse_end |-> IF r = 0 THEN None ELSE int(section[r].stop),
         reverse_sequence |-> IF r = 0 THEN NoneStr ELSE section[r].seq,
         product_length |-> IF p = 0 THEN None ELSE int(section[p].length),
         pair_index |-> pair_index]

\* re.split on the header pattern: the text before the first header, then
\* the text after each header
RECURSIVE re_split(_)
re_split(html) ==
    IF html = <<>> THEN << <<>> >>
    ELSE LET init == re_split(SubSeq(html, 1, Len(html) - 1))
             last == html[Len(html)]
         IN  IF last.kind = "h3"
             THEN Append(init, <<>>)
             ELSE [init EXCEPT ![Len(init)] = Append(@, last)]

PairSectionsNoImplicit(html) == Tail(re_split(html))

\* lines 68-75
PairSections(html) ==
    LET pair_sections == re_split(html)
    IN  IF Len(pair_sections) <= 1 THEN <<html>> ELSE Tail(pair_sections)

RECURSIVE ExtractFromRenumbered(_, _)
ExtractFromRenumbered(pair_sections, n) ==
    IF n = 0 THEN <<>>
    ELSE LET before == ExtractFromRenumbered(pair_sections, n - 1)
             pair_data == _extract_single_pair(pair_sections[n],
                                               Len(before) + 1)
         IN  IF pair_data.forward_start # None
             THEN Append(before, pair_data)
             ELSE before

\* lines 79-82: the pairs of the first n sections
RECURSIVE ExtractFrom(_, _)
ExtractFrom(pair_sections, n) ==
    IF n = 0 THEN <<>>
    ELSE LET pair_data == _extract_single_pair(pair_sections[n], n)
             before == ExtractFrom(pair_sections, n - 1)
         IN  IF pair_data.forward_start # None
             THEN Append(before, pair_data)
             ELSE before

extract_all_primer_pairs(html) ==
    ExtractFrom(PairSections(html), Len(PairSections(html)))

---------------------------------------------------------------------------
(* Calls of the extraction functions on a page *)

MaxTokens == 4

\* the tokens a page is made of
PageTokens ==
    { H3, Fwd(<<"A", "T">>, 1, 2), Fwd(<<"A", "C">>, 2, 3),
      Rev(<<"C", "G">>, 5, 4), Prod(4), Text("html") }

Pages == UNION { [1..n -> PageTokens] : n \in 0..MaxTokens }

NotExtracted == [op |-> "none"]

ExtractInit ==
    /\ x_html \in Pages
    /\ x_result = NotExtracted
    /\ s_row_data = <<>>
    /\ s_response = <<>>
    /\ s_result = <<>>
    /\ r_sizes = <<>>
    /\ r_bands = <<>>

\* extract_all_primer_pairs(html_content)
ExtractAll ==
    /\ x_result = NotExtracted
    /\ x_result' = [op |-> "all", pairs |-> extract_all_primer_pairs(x_html)]
    /\ UNCHANGED <<x_html, s_row_data, s_response, s_result, r_sizes,
                   r_bands>>
    /\ UNCHANGED <<matchVars, jobVars, batchVars, submitVars, rateVars>>

\* _extract_single_pair(html_content, pair_index), pair_index None by
\* default
ExtractSingle ==
    /\ x_result = NotExtracted
    /\ \E pair_index \in {None, 1} :
          x_result' = [op |-> "single",
                       pair |-> _extract_single_pair(x_html, pair_index)]
    /\ UNCHANGED <<x_html, s_row_data, s_response, s_result, r_sizes,
                   r_bands>>
    /\ UNCHANGED <<matchVars, jobVars, batchVars, submitVars, rateVars>>

ExtractNext == ExtractAll \/ ExtractSingle

InitExtract ==
    ExtractInit /\ MatchIdle /\ JobIdle /\ BatchIdle /\ SubmitIdle /\ RateIdle

SpecExtract == InitExtract /\ [][ExtractNext]_vars

---------------------------------------------------------------------------
(* Extraction: the claims *)

\* the positions of the section markers of a page
HeaderAt(html) == {i \in DOMAIN html : html[i].kind = "h3"}

SectionCount(html) ==
    IF HeaderAt(html) = {} THEN 1 ELSE Cardinality(HeaderAt(html))

NthHeader(html, n) ==
    CHOOSE i \in HeaderAt(html) :
        Cardinality({j \in HeaderAt(html) : j <= i}) = n

\* the n-th section of a page: what follows its n-th marker up to the next
\* marker or the end, the whole page when it has no marker
Section(html, n) ==
    IF HeaderAt(html) = {} THEN html
    ELSE LET from == NthHeader(html, n) + 1
             to == IF n = SectionCount(html) THEN Len(html)
                   ELSE NthHeader(html, n + 1) - 1
         IN  SubSeq(html, from, to)

HasRow(section, kind) == \E i \in DOMAIN section : section[i].kind = kind

\* C14: on a page without section marker, extract_all_primer_pairs returns
\* at most one pair: none when the page has no forward-primer row, else the
\* one pair extracted from the whole page, with pair_index 1
C14_NoMarkerOneSection ==
    (x_result.op = "all" /\ HeaderAt(x_html) = {}) =>
        /\ Len(x_result.pairs) <= 1
        /\ x_result.pairs =
              IF HasRow(x_html, "fwd")
              THEN << _extract_single_pair(x_html, 1) >>
              ELSE <<>>

\* C14 witness: a page without marker and with two forward-primer rows gave
\* one pair, of index 1, with the reverse row of the page
C14_Witness ==
    /\ x_result.op = "all"
    /\ HeaderAt(x_html) = {}
    /\ Cardinality({i \in DOMAIN x_html : x_html[i].kind = "fwd"}) = 2
    /\ Len(x_result.pairs) = 1
    /\ x_result.pairs[1].pair_index = 1
    /\ x_result.pairs[1].reverse_start = 5

\* C15: every pair extract_all_primer_pairs returns has a forward_start; the
\* pair_index values returned are exactly the positions of the sections
\* with a forward-primer row, in increasing order, and each pair carries
\* the forward start of its own section
C15_PairsOfSectionsWithForward ==
    x_result.op = "all" =>
        LET pairs == x_result.pairs
        IN  /\ \A k \in DOMAIN pairs : pairs[k].forward_start # None
            /\ {pairs[k].pair_index : k \in DOMAIN pairs}
                  = {n \in 1..SectionCount(x_html) :
                        HasRow(Section(x_html, n), "fwd")}
            /\ \A k, l \in DOMAIN pairs :
                  k < l => pairs[k].pair_index < pairs[l].pair_index
            /\ \A k \in DOMAIN pairs :
                  LET section == Section(x_html, pairs[k].pair_index)
                  IN  \E i \in DOMAIN section :
                        /\ section[i].kind = "fwd"
                        /\ section[i].start = pairs[k].forward_start
                        /\ \A j \in 1..(i - 1) : section[j].kind # "fwd"

\* C15 witness: of two sections the first has no forward-primer row and is
\* dropped; the one pair returned has pair_index 2
C15_Witness ==
    /\ x_result.op = "all"
    /\ SectionCount(x_html) = 2
    /\ HeaderAt(x_html) # {}
    /\ HasRow(Section(x_html, 1), "rev")
    /\ Len(x_result.pairs) = 1
    /\ x_result.pairs[1].pair_index = 2

\* C16: _extract_single_pair returns the fields of each of the three rows
\* non-null exactly when the section has that row, whatever other rows it
\* has
C16_RowsIndependent ==
    x_result.op = "single" =>
        LET pair == x_result.pair
            forward == HasRow(x_html, "fwd")
            reverse == HasRow(x_html, "rev")
            product == HasRow(x_html, "prod")
        IN  /\ (pair.forward_start # None) <=> forward
            /\ (pair.forward_end # None) <=> forward
            /\ (pair.forward_sequence # NoneStr) <=> forward
            /\ (pair.reverse_start # None) <=> reverse
            /\ (pair.reverse_end # None) <=> reverse
            /\ (pair.reverse_sequence # NoneStr) <=> reverse
            /\ (pair.product_length # None) <=> product

\* C16 witness: a section without forward-primer row, with a reverse-primer
\* and a product-length row, gave the reverse and product fields and null
\* forward fields
C16_Witness ==
    /\ x_result.op = "single"
    /\ ~HasRow(x_html, "fwd")
    /\ x_result.pair.forward_start = None
    /\ x_result.pair.reverse_start = 5
    /\ x_result.pair.product_length = 4


---------------------------------------------------------------------------
(* PrimerBlastValidator.validate_job *)

\* what one call did: the record as the call left it, whether it raised,
\* whether fetch_results was called, whether a pair was chosen
Outcome(job_info, raised, requested, chose) ==
    [job_info |-> job_info, raised |-> raised, requested |-> requested,
     chose |-> chose]

StatusAfterCount(job_info, status, requested) ==
    Outcome(Put(IF status = "extraction_failed"
                THEN Put(job_info, "total_primer_pairs_found", 0)
                ELSE job_info,
                "validation_status", status),
            FALSE, requested, FALSE)

StatusResetting(job_info, status, requested) ==
    Outcome(Put([k \in DOMAIN job_info
                    \ {"validation", "validation_passed", "sequences_match"}
                  |-> job_info[k]],
                "validation_status", status),
            FALSE, requested, FALSE)

\* an early return of validate_job: only validation_status is set
Status(job_info, status, requested) ==
    Outcome(Put(job_info, "validation_status", status), FALSE, requested,
            FALSE)

SequenceMatchCaseSensitive(matched_pair, job_info) ==
    /\ ~ ( /\ Truthy(matched_pair.forward_sequence)
           /\ Truthy(GetStr(job_info, "forward_primer"))
           /\ matched_pair.forward_sequence
                 # GetStr(job_info, "forward_primer") )
    /\ ~ ( /\ Truthy(matched_pair.reverse_sequence)
           /\ Truthy(GetStr(job_info, "reverse_primer"))
           /\ matched_pair.reverse_sequence
                 # GetStr(job_info, "reverse_primer") )

\* lines 292-301
SequenceMatch(matched_pair, job_info) ==
    /\ ~ ( /\ Truthy(matched_pair.forward_sequence)
           /\ Truthy(GetStr(job_info, "forward_primer"))
           /\ upper(matched_pair.forward_sequence)
                 # upper(GetStr(job_info, "forward_primer")) )
    /\ ~ ( /\ Truthy(matched_pair.reverse_sequence)
           /\ Truthy(GetStr(job_info, "reverse_primer"))
           /\ upper(matched_pair.reverse_sequence)
                 # upper(GetStr(job_info, "reverse_primer")) )

\* lines 293-300: .upper() of an expected sequence that is a float raises
\* AttributeError
SequenceRaises(matched_pair, job_info) ==
    \/ /\ Truthy(matched_pair.forward_sequence)
       /\ GetStr(job_info, "forward_primer") = NaNStr
    \/ /\ Truthy(matched_pair.reverse_sequence)
       /\ GetStr(job_info, "reverse_primer") = NaNStr

CoordinateMatchNullTolerant(expected, extracted) ==
    IF expected = None \/ extracted = None THEN "true"
    ELSE IF IntRaises(expected) \/ IntRaises(extracted) THEN "raise"
    ELSE IF int(expected) = int(extracted) THEN "true" ELSE "false"

\* lines 317-330: one coordinate check, False unless both values are there
CoordinateMatch(expected, extracted) ==
    IF expected # None /\ extracted # None
    THEN IF IntRaises(expected) \/ IntRaises(extracted) THEN "raise"
         ELSE IF int(expected) = int(extracted) THEN "true" ELSE "false"
    ELSE "false"

ValidationPassedNoSequences(validation) ==
    /\ validation.forward_start_match
    /\ validation.reverse_start_match
    /\ validation.product_size_match

\* lines 333-338
ValidationPassed(validation) ==
    /\ validation.forward_start_match
    /\ validation.reverse_start_match
    /\ validation.product_size_match
    /\ validation.sequences_match

CompareStatusByCoordinates(job_info, matched_pair, match_found) ==
    LET sequence_match == SequenceMatch(matched_pair, job_info)
        extracted ==
            [matched_pair_index |-> matched_pair.pair_index,
             used_matching_algorithm |-> match_found,
             extracted_forward_sequence |-> matched_pair.forward_sequence,
             extracted_forward_start |-> matched_pair.forward_start,
             extracted_forward_end |-> matched_pair.forward_end,
             extracted_reverse_sequence |-> matched_pair.reverse_sequence,
             extracted_reverse_start |-> matched_pair.reverse_start,
             extracted_reverse_end |-> matched_pair.reverse_end,
             extracted_product_length |-> matched_pair.product_length]
            @@ job_info
        stored == Put(extracted, "sequences_match", sequence_match)
        fwd == CoordinateMatch(Get(job_info, "left_primer_start"),
                               matched_pair.forward_start)
        rev == CoordinateMatch(Get(job_info, "right_primer_start"),
                               matched_pair.reverse_start)
        size == CoordinateMatch(Get(job_info, "product_size"),
                                matched_pair.product_length)
        validation ==
            [forward_start_match |-> fwd = "true",
             reverse_start_match |-> rev = "true",
             product_size_match |-> size = "true",
             sequences_match |-> sequence_match]
        validation_passed == ValidationPassed(validation)
    IN  IF SequenceRaises(matched_pair, job_info)
        THEN Outcome(extracted, TRUE, TRUE, TRUE)
        ELSE IF "raise" \in {fwd, rev, size}
        THEN Outcome(stored, TRUE, TRUE, TRUE)
        ELSE Outcome(
                 [validation |-> validation,
                  validation_passed |-> validation_passed,
                  validation_status |->
                      IF {fwd, rev, size} = {"true"} THEN "pass" ELSE "fail"]
                 @@ stored,
                 FALSE, TRUE, TRUE)

\* lines 278-363: the chosen pair is stored and compared
Compare(job_info, matched_pair, match_found) ==
    LET sequence_match == SequenceMatch(matched_pair, job_info)
        extracted ==
            [matched_pair_index |-> matched_pair.pair_index,
             used_matching_algorithm |-> match_found,
             extracted_forward_sequence |-> matched_pair.forward_sequence,
             extracted_forward_start |-> matched_pair.forward_start,
             extracted_forward_end |-> matched_pair.forward_end,
             extracted_reverse_sequence |-> matched_pair.reverse_sequence,
             extracted_reverse_start |-> matched_pair.reverse_start,
             extracted_reverse_end |-> matched_pair.reverse_end,
             extracted_product_length |-> matched_pair.product_length]
            @@ job_info
        stored == Put(extracted, "sequences_match", sequence_match)
        fwd == CoordinateMatch(Get(job_info, "left_primer_start"),
                               matched_pair.forward_start)
        rev == CoordinateMatch(Get(job_info, "right_primer_start"),
                               matched_pair.reverse_start)
        size == CoordinateMatch(Get(job_info, "product_size"),
                                matched_pair.product_length)
        validation ==
            [forward_start_match |-> fwd = "true",
             reverse_start_match |-> rev = "true",
             product_size_match |-> size = "true",
             sequences_match |-> sequence_match]
        validation_passed == ValidationPassed(validation)
    IN  IF SequenceRaises(matched_pair, job_info)
        THEN Outcome(extracted, TRUE, TRUE, TRUE)
        ELSE IF "raise" \in {fwd, rev, size}
        THEN Outcome(stored, TRUE, TRUE, TRUE)
        ELSE Outcome(
                 [validation |-> validation,
                  validation_passed |-> validation_passed,
                  validation_status |->
                      IF validation_passed THEN "pass" ELSE "fail"]
                 @@ stored,
                 FALSE, TRUE, TRUE)

validate_job_primers_first(job_info, response) ==
    IF ~Truthy(GetStr(job_info, "results_url"))
    THEN Status(job_info, "no_url", FALSE)
    ELSE
    LET html == fetch_results(response) IN
    IF html = NoneHtml \/ html = <<>>
    THEN Status(job_info, "fetch_failed", TRUE)
    ELSE IF InText("No primer pairs found", html)
    THEN Status(job_info, "no_primers", TRUE)
    ELSE IF InLower("processing", html) \/ InLower("queued", html)
    THEN Status(job_info, "processing", TRUE)
    ELSE
    LET all_pairs == extract_all_primer_pairs(html) IN
    IF all_pairs = <<>>
    THEN Status(job_info, "extraction_failed", TRUE)
    ELSE
    LET counted == Put(job_info, "total_primer_pairs_found", Len(all_pairs))
        match == find_matching_pair(all_pairs, counted)
    IN  IF match.raised
        THEN Outcome(counted, TRUE, TRUE, FALSE)
        ELSE IF match.pair = NonePair
        THEN Status(counted, "no_primer_data", TRUE)
        ELSE Compare(counted, match.pair, match.found)

validate_job_accumulating(job_info, response) ==
    IF ~Truthy(GetStr(job_info, "results_url"))
    THEN Status(job_info, "no_url", FALSE)
    ELSE
    LET html == fetch_results(response) IN
    IF html = NoneHtml \/ html = <<>>
    THEN Status(job_info, "fetch_failed", TRUE)
    ELSE IF InLower("processing", html) \/ InLower("queued", html)
    THEN Status(job_info, "processing", TRUE)
    ELSE IF InText("No primer pairs found", html)
    THEN Status(job_info, "no_primers", TRUE)
    ELSE
    LET all_pairs == extract_all_primer_pairs(html) IN
    IF all_pairs = <<>>
    THEN Status(job_info, "extraction_failed", TRUE)
    ELSE
    LET counted == Put(job_info, "total_primer_pairs_found",
                       IF "total_primer_pairs_found" \in DOMAIN job_info
                       THEN job_info.total_primer_pairs_found
                                + Len(all_pairs)
                       ELSE Len(all_pairs))
        match == find_matching_pair(all_pairs, counted)
    IN  IF match.raised
        THEN Outcome(counted, TRUE, TRUE, FALSE)
        ELSE IF match.pair = NonePair
        THEN Status(counted, "no_primer_data", TRUE)
        ELSE Compare(counted, match.pair, match.found)

\* validate_job, lines 215-363, given what the request of fetch_results
\* meets
validate_job(job_info, response) ==
    IF ~Truthy(GetStr(job_info, "results_url"))
    THEN Status(job_info, "no_url", FALSE)
    ELSE
    LET html == fetch_results(response) IN
    IF html = NoneHtml \/ html = <<>>
    THEN Status(job_info, "fetch_failed", TRUE)
    ELSE IF InLower("processing", html) \/ InLower("queued", html)
    THEN Status(job_info, "processing", TRUE)
    ELSE IF InText("No primer pairs found", html)
    THEN Status(job_info, "no_primers", TRUE)
    ELSE
    LET all_pairs == extract_all_primer_pairs(html) IN
    IF all_pairs = <<>>
    THEN Status(job_info, "extraction_failed", TRUE)
    ELSE
    LET counted == Put(job_info, "total_primer_pairs_found", Len(all_pairs))
        match == find_matching_pair(all_pairs, counted)
    IN  IF match.raised
        THEN Outcome(counted, TRUE, TRUE, FALSE)
        ELSE IF match.pair = NonePair
        THEN Status(counted, "no_primer_data", TRUE)
        ELSE Compare(counted, match.pair, match.found)


---------------------------------------------------------------------------
(* Calls of validate_job on one job record *)

MaxCalls == 2

Url == <<"u", "r", "l">>
JobKey == <<"k", "e", "y">>

\* a job record as submit_job builds it and json.load reads it back
JobRecord(id, key, url, fwd, rev, left_start, right_start, size) ==
    [primer_id |-> id,
     job_key |-> key,
     results_url |-> url,
     forward_primer |-> fwd,
     reverse_primer |-> rev,
     left_primer_start |-> left_start,
     right_primer_start |-> right_start,
     product_size |-> size]

\* del d[key] for each of the keys
Without(d, keys) == [k \in DOMAIN d \ keys |-> d[k]]

ExpectedPrimers ==
    {NoneStr, NaNStr, <<>>, <<"A", "T">>, <<"a", "t">>, <<"A", "C">>}

JobSamples ==
    { JobRecord(1, JobKey, Url, fp, <<"C", "G">>, e[1], e[2], e[3]) :
        fp \in ExpectedPrimers,
        e \in ExpectedForward \X ExpectedReverse \X ExpectedSize }
    \cup { JobRecord(1, JobKey, u, <<"A", "T">>, <<"G", "G">>, 1, 5, 4) :
            u \in {Url, NoneStr, <<>>} }
    \cup { Without(JobRecord(1, JobKey, Url, <<"A", "T">>, <<"C", "G">>,
                             1, 5, 4), a) :
            a \in {{"results_url"}, {"forward_primer", "left_primer_start"}} }

\* what requests.get can bring for a results URL
Failed == [ok |-> FALSE, text |-> <<>>]
Page(html) == [ok |-> TRUE, text |-> html]

Responses ==
    { Failed,
      Page(<<>>),
      Page(<<Text("Processing"), H3, Fwd(<<"A", "T">>, 1, 2),
             Rev(<<"C", "G">>, 5, 4), Prod(4)>>),
      Page(<<Text("QUEUED"), Text("No primer pairs found")>>),
      Page(<<Text("No primer pairs found")>>),
      Page(<<Text("no primer pairs found")>>),
      Page(<<Text("html"), Fwd(<<"A", "T">>, 1, 2), Rev(<<"C", "G">>, 5, 4),
             Prod(4)>>),
      Page(<<Text("html"), H3, Fwd(<<"A", "T">>, 2, 3),
             Rev(<<"C", "G">>, 5, 4), Prod(4), H3, Fwd(<<"a", "t">>, 1, 2),
             Rev(<<"c", "g">>, 5, 4), Prod(4)>>),
      Page(<<H3, Rev(<<"C", "G">>, 5, 4), Prod(4), H3,
             Fwd(<<"A", "C">>, 1, 2), Rev(<<"C", "G">>, 6, 5)>>),
      Page(<<H3, Fwd(<<"A", "T">>, 1, 2)>>),
      Page(<<H3, Text("html"), H3, Prod(4)>>) }

JobInit ==
    /\ j_job_info \in JobSamples
    /\ j_last = <<>>
    /\ j_calls = 0

\* validate_job(job_info) with the response its request meets
JobValidate ==
    /\ j_calls < MaxCalls
    /\ (j_calls > 0 => ~j_last.raised)
    /\ \E response \in Responses :
          LET out == validate_job(j_job_info, response)
          IN  /\ j_job_info' = out.job_info
              /\ j_last' = [response |-> response,
                            earlier |-> IF j_calls = 0 THEN <<>>
                                        ELSE j_last.response,
                            before |-> j_job_info,
                            raised |-> out.raised,
                            requested |-> out.requested,
                            chose |-> out.chose]
    /\ j_calls' = j_calls + 1
    /\ UNCHANGED <<matchVars, batchVars, submitVars, rateVars, callVars>>

InitJob ==
    JobInit /\ MatchIdle /\ BatchIdle /\ SubmitIdle /\ RateIdle /\ CallIdle

SpecJob == InitJob /\ [][JobValidate]_vars


---------------------------------------------------------------------------
(* validate_job: the claims *)

JobReturned == j_calls > 0 /\ ~j_last.raised

AllFourChecks(validation) ==
    /\ validation.forward_start_match
    /\ validation.reverse_start_match
    /\ validation.product_size_match
    /\ validation.sequences_match

\* C4: a call of validate_job that returns leaves validation_status 'pass'
\* exactly when it chose a pair and all four checks of the validation result
\* are true, and 'fail' exactly when it chose a pair and one of them is false
C4_PassIffAllFourChecks ==
    JobReturned =>
        LET status == j_job_info.validation_status
            all_four == IF j_last.chose
                        THEN AllFourChecks(j_job_info.validation)
                        ELSE FALSE
        IN  /\ (status = "pass") <=> (j_last.chose /\ all_four)
            /\ (status = "fail") <=> (j_last.chose /\ ~all_four)

\* C4 witness: a call that chose a pair whose three coordinate checks are
\* true and whose sequence check is false, and ended in 'fail'
C4_Witness ==
    /\ JobReturned
    /\ j_last.chose
    /\ j_job_info.validation.forward_start_match
    /\ j_job_info.validation.reverse_start_match
    /\ j_job_info.validation.product_size_match
    /\ ~j_job_info.validation.sequences_match
    /\ j_job_info.validation_status = "fail"

\* the record as the last call found it lacks a results URL: the key is
\* absent, or its value is null or the empty string
NoResultsUrl(job_info) ==
    \/ "results_url" \notin DOMAIN job_info
    \/ job_info.results_url \in {NoneStr, <<>>}

\* C11: a call of validate_job on a record whose results_url is absent, null
\* or empty returns, sets only validation_status, to 'no_url', and does not
\* call fetch_results (whose first statement takes the rate limiter and
\* whose second issues the request)
C11_NoUrlNoRequest ==
    (j_calls > 0 /\ NoResultsUrl(j_last.before)) =>
        /\ ~j_last.raised
        /\ ~j_last.requested
        /\ j_job_info = Put(j_last.before, "validation_status", "no_url")

\* C11 witness: a call on a record whose results_url is the empty string,
\* for which a complete result page was there to be fetched, ended in
\* 'no_url' without a request
C11_Witness ==
    /\ j_calls > 0
    /\ "results_url" \in DOMAIN j_last.before
    /\ j_last.before.results_url = <<>>
    /\ j_last.response.ok
    /\ j_last.response.text # <<>>
    /\ ~j_last.requested
    /\ j_job_info.validation_status = "no_url"

\* the last call fetched a non-empty page that reports neither a running
\* job nor 'No primer pairs found'
FetchedCompletePage ==
    /\ j_calls > 0
    /\ ~NoResultsUrl(j_last.before)
    /\ j_last.response.ok
    /\ j_last.response.text # <<>>
    /\ ~InLower("processing", j_last.response.text)
    /\ ~InLower("queued", j_last.response.text)
    /\ ~InText("No primer pairs found", j_last.response.text)

\* C12: when extraction yields no pair for a fetched, completed result page,
\* the call returns with validation_status 'extraction_failed' or
\* 'no_primer_data' and changes no other field of the record
C12_ZeroPairsStatus ==
    (FetchedCompletePage
     /\ extract_all_primer_pairs(j_last.response.text) = <<>>) =>
        /\ ~j_last.raised
        /\ j_job_info.validation_status
              \in {"extraction_failed", "no_primer_data"}
        /\ j_job_info = Put(j_last.before, "validation_status",
                            j_job_info.validation_status)

\* C12 witness: the first call on a record met a page with two sections,
\* neither with a forward-primer row, and ended in 'extraction_failed'
\* with no extraction field on the record
C12_Witness ==
    /\ j_calls = 1
    /\ FetchedCompletePage
    /\ j_last.response.text = <<H3, Text("html"), H3, Prod(4)>>
    /\ j_job_info.validation_status = "extraction_failed"
    /\ "total_primer_pairs_found" \notin DOMAIN j_job_info
    /\ "extracted_product_length" \notin DOMAIN j_job_info

\* the outcome the stated precedence gives a call: the first that applies
\* of no_url, fetch_failed, processing, no_primers, extraction_failed, and
\* else the comparison that ends in pass or fail
ByPrecedence(job_info, response) ==
    IF NoResultsUrl(job_info) THEN "no_url"
    ELSE IF ~response.ok \/ response.text = <<>> THEN "fetch_failed"
    ELSE IF \E i \in DOMAIN response.text :
               /\ response.text[i].kind = "text"
               /\ response.text[i].text
                     \in {"processing", "Processing", "queued", "QUEUED"}
    THEN "processing"
    ELSE IF \E i \in DOMAIN response.text :
               /\ response.text[i].kind = "text"
               /\ response.text[i].text = "No primer pairs found"
    THEN "no_primers"
    ELSE IF \A n \in 1..SectionCount(response.text) :
               ~HasRow(Section(response.text, n), "fwd")
    THEN "extraction_failed"
    ELSE "compare"

\* C24: a call of validate_job ends in the first status of the precedence
\* no_url, fetch_failed, processing, no_primers, extraction_failed that
\* applies, and in pass or fail (or in an exception of the comparison) when
\* none does
C24_StatusPrecedence ==
    j_calls > 0 =>
        LET outcome == ByPrecedence(j_last.before, j_last.response)
        IN  IF outcome = "compare"
            THEN j_last.raised
                    \/ j_job_info.validation_status \in {"pass", "fail"}
            ELSE /\ ~j_last.raised
                 /\ j_job_info.validation_status = outcome

\* C24 witness: the page has 'Processing' in it and a section with the
\* three rows; the call ended in 'processing'
C24_Witness ==
    /\ j_calls > 0
    /\ j_last.response.ok
    /\ \E i \in DOMAIN j_last.response.text :
          j_last.response.text[i] = Text("Processing")
    /\ extract_all_primer_pairs(j_last.response.text) # <<>>
    /\ j_job_info.validation_status = "processing"

\* a page with 'QUEUED' and 'No primer pairs found' ended in 'processing'
C24_QueuedBeforeNoPrimers ==
    /\ j_calls > 0
    /\ j_last.response
          = Page(<<Text("QUEUED"), Text("No primer pairs found")>>)
    /\ j_job_info.validation_status = "processing"

\* C25: no call of validate_job leaves the status 'no_primer_data': where
\* the matcher is called the pair list is not empty, and there it raises or
\* returns a pair, so that a call that gets that far and returns chose one
C25_NoPrimerDataUnreachable ==
    /\ "validation_status" \in DOMAIN j_job_info
          => j_job_info.validation_status # "no_primer_data"
    /\ (j_calls > 0 /\ ByPrecedence(j_last.before, j_last.response) = "compare")
          => LET all_pairs == extract_all_primer_pairs(j_last.response.text)
                 match == find_matching_pair(all_pairs, j_last.before)
             IN  /\ all_pairs # <<>>
                 /\ match.raised \/ match.pair # NonePair
                 /\ ~j_last.raised => j_last.chose

\* C25 witness: the matcher confirmed none of the pairs of the page and the
\* call went on with the first of them
C25_Witness ==
    /\ JobReturned
    /\ ByPrecedence(j_last.before, j_last.response) = "compare"
    /\ ~find_matching_pair(extract_all_primer_pairs(j_last.response.text),
                           j_last.before).found
    /\ j_last.chose
    /\ j_job_info.used_matching_algorithm = FALSE
    /\ j_job_info.matched_pair_index = 1
    /\ j_job_info.validation_status = "fail"

\* the three compared values: the expected field of the record, the field
\* the chosen pair is stored in, and the check of the validation result
ComparedFields ==
    { <<"left_primer_start", "extracted_forward_start", "forward_start_match">>,
      <<"right_primer_start", "extracted_reverse_start",
        "reverse_start_match">>,
      <<"product_size", "extracted_product_length", "product_size_match">> }

\* C26: in a call of validate_job that chose a pair and returned, a compared
\* value that is absent from the record or from the chosen pair leaves its
\* check false and the status not 'pass', whatever the matcher said of the
\* pair; a call that returns 'pass' has all three expected values and all
\* three extracted values there and equal
C26_NullNeverPasses ==
    JobReturned =>
        /\ j_last.chose =>
              \A f \in ComparedFields :
                 (Get(j_last.before, f[1]) = None
                     \/ Get(j_job_info, f[2]) = None)
                    => /\ ~j_job_info.validation[f[3]]
                       /\ ~j_job_info.validation_passed
                       /\ j_job_info.validation_status = "fail"
        /\ j_job_info.validation_status = "pass" =>
              \A f \in ComparedFields :
                 /\ Get(j_last.before, f[1]) \notin {None, NaN}
                 /\ Get(j_job_info, f[2]) \notin {None, NaN}
                 /\ Get(j_last.before, f[1]) = Get(j_job_info, f[2])

\* C26 witness: the record has no expected forward start, the matcher
\* confirmed the chosen pair, the other checks are true, and the call ended
\* in 'fail'
C26_Witness ==
    /\ JobReturned
    /\ j_last.chose
    /\ Get(j_last.before, "left_primer_start") = None
    /\ j_job_info.used_matching_algorithm = TRUE
    /\ ~j_job_info.validation.forward_start_match
    /\ j_job_info.validation.reverse_start_match
    /\ j_job_info.validation.product_size_match
    /\ j_job_info.validation.sequences_match
    /\ j_job_info.validation_status = "fail"

\* the chosen pair has no product length, the matcher confirmed it, and the
\* call ended in 'fail'
C26_MissingExtractedReached ==
    /\ JobReturned
    /\ j_last.chose
    /\ Get(j_last.before, "product_size") # None
    /\ Get(j_job_info, "extracted_product_length") = None
    /\ j_job_info.used_matching_algorithm = TRUE
    /\ j_job_info.validation_status = "fail"

EarlyExits ==
    {"no_url", "fetch_failed", "processing", "no_primers", "extraction_failed"}

\* C27: a call of validate_job that ends in no_url, fetch_failed,
\* processing, no_primers or extraction_failed leaves the record with the
\* keys it had and validation_status, and with every value but that of
\* validation_status as it was
C27_EarlyExitFrame ==
    (j_calls > 0 /\ ByPrecedence(j_last.before, j_last.response) \in EarlyExits)
        => /\ ~j_last.raised
           /\ j_job_info.validation_status \in EarlyExits
           /\ DOMAIN j_job_info
                 = DOMAIN j_last.before \cup {"validation_status"}
           /\ \A k \in DOMAIN j_last.before \ {"validation_status"} :
                 j_job_info[k] = j_last.before[k]

\* C27 witness: the record had the fields of an earlier call that ended in
\* 'pass', the second call ended in 'fetch_failed', and the fields are
\* still there
C27_Witness ==
    /\ j_calls = 2
    /\ ~j_last.raised
    /\ j_last.before.validation_status = "pass"
    /\ j_job_info.validation_status = "fetch_failed"
    /\ {"validation", "validation_passed", "sequences_match",
        "matched_pair_index", "used_matching_algorithm",
        "total_primer_pairs_found", "extracted_forward_start"}
          \subseteq DOMAIN j_job_info
    /\ j_job_info.validation = j_last.before.validation

\* validation_passed is in the record and true
Passed(d) == "validation_passed" \in DOMAIN d /\ d.validation_passed

\* C28 as stated: after calls of validate_job on one record, the last of
\* which returned, validation_passed is true exactly when validation_status
\* is 'pass', and a validation result is there only when the status is
\* 'pass' or 'fail'
C28_PassedIffStatus ==
    JobReturned =>
        /\ Passed(j_job_info)
              <=> (j_job_info.validation_status = "pass")
        /\ "validation" \in DOMAIN j_job_info
              => j_job_info.validation_status \in {"pass", "fail"}

\* C28: after any calls of validate_job on one record, a status 'pass' goes
\* with validation_passed true and a status 'fail' with validation_passed
\* false, both with a validation result; validation_passed and the
\* validation result are there together; a call that ends in another status
\* leaves them as the record had them; and after one call on a record that
\* had none of these fields, validation_passed is true exactly when the
\* status is 'pass' and the validation result is there exactly when the
\* status is 'pass' or 'fail'
C28_PassedIffStatusOfLastComparison ==
    LET status == IF "validation_status" \in DOMAIN j_job_info
                  THEN j_job_info.validation_status
                  ELSE "absent"
        has_validation == "validation" \in DOMAIN j_job_info
        has_passed == "validation_passed" \in DOMAIN j_job_info
    IN  /\ has_passed <=> has_validation
        /\ status = "pass"
              => has_passed /\ j_job_info.validation_passed = TRUE
        /\ status = "fail"
              => has_passed /\ j_job_info.validation_passed = FALSE
        /\ (JobReturned /\ j_job_info.validation_status \notin {"pass", "fail"})
              => /\ has_validation <=> "validation" \in DOMAIN j_last.before
                 /\ Passed(j_job_info) <=> Passed(j_last.before)
        /\ (j_calls = 1 /\ ~j_last.raised)
              => /\ Passed(j_job_info)
                       <=> (j_job_info.validation_status = "pass")
                 /\ has_validation
                       <=> (j_job_info.validation_status \in {"pass", "fail"})
        /\ (j_calls = 1 /\ j_last.raised) => ~has_validation

\* C28 witness: the first call ended in 'pass' and the second in
\* 'fetch_failed'; validation_passed is still true and the validation result
\* still there
C28_Witness ==
    /\ j_calls = 2
    /\ ~j_last.raised
    /\ j_last.before.validation_status = "pass"
    /\ j_last.response = Failed
    /\ j_job_info.validation_status = "fetch_failed"
    /\ j_job_info.validation_passed = TRUE
    /\ AllFourChecks(j_job_info.validation)

\* a sequence is missing or empty
Missing(sequence) == sequence \in {NoneStr, <<>>}

\* two sequences differ at most in the case of their letters
EqualIgnoringCase(a, b) ==
    /\ Len(a) = Len(b)
    /\ \A i \in 1..Len(a) :
          \/ a[i] = b[i]
          \/ <<a[i], b[i]>> \in {<<"a", "A">>, <<"A", "a">>, <<"t", "T">>,
                                  <<"T", "t">>, <<"c", "C">>, <<"C", "c">>,
                                  <<"g", "G">>, <<"G", "g">>, <<"n", "N">>,
                                  <<"N", "n">>}

SequenceAgrees(extracted, expected) ==
    Missing(extracted) \/ Missing(expected)
        \/ EqualIgnoringCase(extracted, expected)

\* C13: a call of validate_job that returns with a chosen pair stores
\* sequences_match true exactly when, for the forward and for the reverse
\* primer, the extracted or the expected sequence is missing or empty or the
\* two are equal up to the case of their letters
C13_SequencesCaseInsensitive ==
    (JobReturned /\ j_last.chose) =>
        ( j_job_info.sequences_match <=>
            /\ SequenceAgrees(j_job_info.extracted_forward_sequence,
                              GetStr(j_job_info, "forward_primer"))
            /\ SequenceAgrees(j_job_info.extracted_reverse_sequence,
                              GetStr(j_job_info, "reverse_primer")) )

\* C13 witness: the extracted forward sequence is the expected one in lower
\* case and sequences_match is true
C13_Witness ==
    /\ JobReturned
    /\ j_last.chose
    /\ j_job_info.extracted_forward_sequence = <<"a", "t">>
    /\ GetStr(j_job_info, "forward_primer") = <<"A", "T">>
    /\ j_job_info.sequences_match

\* the extracted and the expected forward sequence differ in a letter and
\* sequences_match is false
C13_MismatchReached ==
    /\ JobReturned
    /\ j_last.chose
    /\ j_job_info.extracted_forward_sequence = <<"A", "T">>
    /\ GetStr(j_job_info, "forward_primer") = <<"A", "C">>
    /\ ~j_job_info.sequences_match


---------------------------------------------------------------------------
(* validate_all_jobs *)

NumJobs == 3
MaxWorkers == 2
MaxInterval == 2

\* a record of a submitted job, of a job whose expected forward start is a
\* NaN (an empty cell of the input table), of a job whose submission failed
GoodJob(i) == JobRecord(i, JobKey, Url, <<"A", "T">>, <<"C", "G">>, 1, 5, 4)
NaNJob(i) == JobRecord(i, JobKey, Url, <<"A", "T">>, <<"C", "G">>, NaN, 5, 4)
NoKeyJob(i) ==
    JobRecord(i, NoneStr, NoneStr, <<"A", "T">>, <<"C", "G">>, 1, 5, 4)

BatchJobs(i) == {GoodJob(i), NaNJob(i), NoKeyJob(i)}

BatchResponses ==
    { Failed,
      Page(<<Text("Processing")>>),
      Page(<<Text("html"), H3, Fwd(<<"A", "T">>, 2, 3),
             Rev(<<"C", "G">>, 5, 4), Prod(4), H3, Fwd(<<"a", "t">>, 1, 2),
             Rev(<<"c", "g">>, 5, 4), Prod(4)>>) }

NoneSlot == 0
NoneJob == [is_none |-> TRUE]

process_job_fetch_raises(job, resp) ==
    IF ~Truthy(GetStr(job, "job_key"))
    THEN Status(job, "no_job_key", FALSE)
    ELSE IF Truthy(GetStr(job, "results_url")) /\ ~resp.ok
         THEN Outcome(job, TRUE, TRUE, FALSE)
         ELSE validate_job(job, resp)

process_job_unmarked(job, resp) ==
    IF ~Truthy(GetStr(job, "job_key"))
    THEN Outcome(job, FALSE, FALSE, FALSE)
    ELSE validate_job(job, resp)

\* process_job, lines 431-455 (the verbose prints change no state)
process_job(job, resp) ==
    IF ~Truthy(GetStr(job, "job_key"))
    THEN Status(job, "no_job_key", FALSE)
    ELSE validate_job(job, resp)

SlotByCompletion(idx, completed) == completed + 1

\* line 468: the slot a result is written to
Slot(idx, completed) == idx

CheckpointDueAfterInterval(completed, interval) == completed >= interval

\* line 472
CheckpointDue(completed, interval) == completed % interval = 0

JobsToSaveUnfiltered(slots, records) ==
    [p \in DOMAIN slots |->
        IF slots[p] = NoneSlot THEN NoneJob ELSE records[slots[p]]]

\* line 475: the records of the slots that are not None, in slot order
JobsToSave(slots, records) ==
    LET filled == SelectSeq(slots, LAMBDA slot : slot # NoneSlot)
    IN  [p \in DOMAIN filled |-> records[filled[p]]]

\* json.dump(validated_jobs): a None slot is written as null
DumpAll(slots, records) ==
    [p \in DOMAIN slots |->
        IF slots[p] = NoneSlot THEN NoneJob ELSE records[slots[p]]]

Finished(i) == future[i] \in {"returned", "raised", "collected"}

BatchInit ==
    /\ jobs_input \in { js \in [1..NumJobs -> UNION { BatchJobs(i) : i \in 1..NumJobs }] :
                          \A i \in 1..NumJobs : js[i] \in BatchJobs(i) }
    /\ start_line = 0
    /\ end_line = <<>>
    /\ checkpoint_interval \in 1..MaxInterval
    /\ jobs_subset = jobs_input
    /\ future = [i \in 1..NumJobs |-> "pending"]
    /\ fetched = [i \in 1..NumJobs |-> Failed]
    /\ fetch_count = [i \in 1..NumJobs |-> 0]
    /\ validated_jobs = [i \in 1..NumJobs |-> NoneSlot]
    /\ completed_count = 0
    /\ main = "collect"
    /\ output_file = <<>>

\* a pool thread takes the next work item off the queue
Start(i) ==
    /\ main # "idle"
    /\ future[i] = "pending"
    /\ \A j \in 1..(i - 1) : future[j] # "pending"
    /\ Cardinality({j \in DOMAIN future : future[j] = "running"}) < MaxWorkers
    /\ future' = [future EXCEPT ![i] = "running"]
    /\ UNCHANGED <<jobs_input, start_line, end_line, checkpoint_interval,
                   jobs_subset, fetched,
                   fetch_count,
                   validated_jobs, completed_count, main, output_file>>
    /\ UNCHANGED <<matchVars, jobVars, submitVars, rateVars, callVars>>

FinishRetry(i) ==
    /\ main # "idle"
    /\ future[i] = "running"
    /\ \E resp \in BatchResponses :
          LET out == process_job(jobs_subset[i], resp)
              again == /\ ~out.raised
                       /\ out.job_info.validation_status
                             \in {"processing", "fetch_failed"}
          IN  /\ out.requested \/ resp = Failed
              /\ jobs_subset' = [jobs_subset EXCEPT ![i] = out.job_info]
              /\ future' = [future EXCEPT ![i] =
                               IF out.raised THEN "raised"
                               ELSE IF again THEN "pending" ELSE "returned"]
              /\ fetched' = [fetched EXCEPT ![i] = resp]
              /\ fetch_count' = [fetch_count EXCEPT ![i] =
                                    IF out.requested THEN @ + 1 ELSE @]
    /\ UNCHANGED <<jobs_input, start_line, end_line, checkpoint_interval,
                   validated_jobs,
                   completed_count, main, output_file>>
    /\ UNCHANGED <<matchVars, jobVars, submitVars, rateVars, callVars>>

\* process_job(idx, job) runs to its return or to an exception
Finish(i) ==
    /\ main # "idle"
    /\ future[i] = "running"
    /\ \E resp \in BatchResponses :
          LET out == process_job(jobs_subset[i], resp)
          IN  /\ out.requested \/ resp = Failed
              /\ jobs_subset' = [jobs_subset EXCEPT ![i] = out.job_info]
              /\ future' = [future EXCEPT ![i] =
                               IF out.raised THEN "raised" ELSE "returned"]
              /\ fetched' = [fetched EXCEPT ![i] = resp]
              /\ fetch_count' = [fetch_count EXCEPT ![i] =
                                    IF out.requested THEN @ + 1 ELSE @]
    /\ UNCHANGED <<jobs_input, start_line, end_line, checkpoint_interval,
                   validated_jobs,
                   completed_count, main, output_file>>
    /\ UNCHANGED <<matchVars, jobVars, submitVars, rateVars, callVars>>

\* one round of the as_completed loop, lines 466-478, for a future whose
\* result() returns
Collect(i) ==
    /\ main = "collect"
    /\ future[i] = "returned"
    /\ LET slots == [validated_jobs EXCEPT ![Slot(i, completed_count)] = i]
           completed == completed_count + 1
       IN  /\ validated_jobs' = slots
           /\ completed_count' = completed
           /\ output_file' =
                 IF CheckpointDue(completed, checkpoint_interval)
                 THEN Append(output_file,
                             [kind |-> "checkpoint",
                              count |-> completed,
                              collected |-> {j \in DOMAIN future :
                                               j = i \/ future[j] = "collected"},
                              content |-> JobsToSave(slots, jobs_subset)])
                 ELSE output_file
    /\ future' = [future EXCEPT ![i] = "collected"]
    /\ UNCHANGED <<jobs_input, start_line, end_line, checkpoint_interval,
                   jobs_subset, fetched,
                   fetch_count,
                   main>>
    /\ UNCHANGED <<matchVars, jobVars, submitVars, rateVars, callVars>>

\* line 467 for a future whose result() re-raises the worker's exception:
\* the exception leaves the loop and the with block, whose exit waits for
\* the pool
CollectRaised(i) ==
    /\ main = "collect"
    /\ future[i] = "raised"
    /\ future' = [future EXCEPT ![i] = "collected"]
    /\ main' = "unwinding"
    /\ UNCHANGED <<jobs_input, start_line, end_line, checkpoint_interval,
                   jobs_subset, fetched,
                   fetch_count,
                   validated_jobs, completed_count, output_file>>
    /\ UNCHANGED <<matchVars, jobVars, submitVars, rateVars, callVars>>

\* the pool has shut down and the exception leaves validate_all_jobs
Abort ==
    /\ main = "unwinding"
    /\ \A i \in DOMAIN future : Finished(i)
    /\ main' = "aborted"
    /\ UNCHANGED <<jobs_input, start_line, end_line, checkpoint_interval,
                   jobs_subset, future,
                   fetched, fetch_count, validated_jobs, completed_count,
                   output_file>>
    /\ UNCHANGED <<matchVars, jobVars, submitVars, rateVars, callVars>>

FinalSaveEarly ==
    /\ main = "collect"
    /\ \A i \in DOMAIN future : Finished(i)
    /\ output_file' = Append(output_file,
                             [kind |-> "final",
                              count |-> completed_count,
                              collected |-> DOMAIN future,
                              content |-> DumpAll(validated_jobs, jobs_subset)])
    /\ main' = "finished"
    /\ UNCHANGED <<jobs_input, start_line, end_line, checkpoint_interval,
                   jobs_subset, future,
                   fetched, fetch_count, validated_jobs, completed_count>>
    /\ UNCHANGED <<matchVars, jobVars, submitVars, rateVars, callVars>>

\* lines 480-482, after the loop has yielded every future
FinalSave ==
    /\ main = "collect"
    /\ \A i \in DOMAIN future : future[i] = "collected"
    /\ output_file' = Append(output_file,
                             [kind |-> "final",
                              count |-> completed_count,
                              collected |-> DOMAIN future,
                              content |-> DumpAll(validated_jobs, jobs_subset)])
    /\ main' = "finished"
    /\ UNCHANGED <<jobs_input, start_line, end_line, checkpoint_interval,
                   jobs_subset, future,
                   fetched, fetch_count, validated_jobs, completed_count>>
    /\ UNCHANGED <<matchVars, jobVars, submitVars, rateVars, callVars>>

BatchNext ==
    \/ \E i \in DOMAIN future : Start(i)
    \/ \E i \in DOMAIN future : Finish(i)
    \/ \E i \in DOMAIN future : Collect(i)
    \/ \E i \in DOMAIN future : CollectRaised(i)
    \/ Abort
    \/ FinalSave


---------------------------------------------------------------------------
(* validate_all_jobs: the row range *)

RangeOfEmptyAllowed(total_jobs, start, end) ==
    LET actual_end == IF end = <<>> THEN total_jobs ELSE end[1]
    IN  IF start < 0 THEN [valid |-> FALSE]
        ELSE IF start >= total_jobs THEN [valid |-> FALSE]
        ELSE [valid |-> TRUE,
              actual_end |-> IF actual_end > total_jobs THEN total_jobs
                             ELSE IF start >= actual_end THEN start
                             ELSE actual_end]

\* lines 392-407: the range check; actual_end of a range that passes it
RangeOf(total_jobs, start, end) ==
    LET actual_end == IF end = <<>> THEN total_jobs ELSE end[1]
    IN  IF start < 0 THEN [valid |-> FALSE]
        ELSE IF start >= total_jobs THEN [valid |-> FALSE]
        ELSE LET clamped == IF actual_end > total_jobs THEN total_jobs
                            ELSE actual_end
             IN  IF start >= clamped THEN [valid |-> FALSE]
                 ELSE [valid |-> TRUE, actual_end |-> clamped]

\* jobs[start:stop] for 0 <= start <= stop <= len(jobs)
Slice(jobs, start, stop) == [p \in 1..(stop - start) |-> jobs[start + p]]

\* the job list of the input file: empty, or one with a record of each kind
RangeJobs(n) ==
    [i \in 1..n |-> IF i = 2 THEN NaNJob(i)
                    ELSE IF i = 3 THEN NoKeyJob(i)
                    ELSE GoodJob(i)]

\* validate_all_jobs has read the job list, line 389
RangeInit ==
    /\ jobs_input \in {RangeJobs(0), RangeJobs(NumJobs)}
    /\ start_line \in -1..(NumJobs + 1)
    /\ end_line \in {<<>>} \cup {<<n>> : n \in -1..(NumJobs + 1)}
    /\ checkpoint_interval \in 1..MaxInterval
    /\ jobs_subset = <<>>
    /\ future = <<>>
    /\ fetched = <<>>
    /\ fetch_count = <<>>
    /\ validated_jobs = <<>>
    /\ completed_count = 0
    /\ main = "loaded"
    /\ output_file = <<>>

\* lines 392-463: the range is checked and validate_all_jobs returns [], or
\* the list is sliced, the slots allocated and every job of the slice
\* handed to the pool
SelectRange ==
    /\ main = "loaded"
    /\ LET range == RangeOf(Len(jobs_input), start_line, end_line)
       IN  IF ~range.valid
           THEN /\ main' = "rejected"
                /\ UNCHANGED <<jobs_subset, future, fetched, fetch_count,
                               validated_jobs>>
           ELSE LET subset == Slice(jobs_input, start_line, range.actual_end)
                IN  /\ main' = "collect"
                    /\ jobs_subset' = subset
                    /\ future' = [i \in DOMAIN subset |-> "pending"]
                    /\ fetched' = [i \in DOMAIN subset |-> Failed]
                    /\ fetch_count' = [i \in DOMAIN subset |-> 0]
                    /\ validated_jobs' = [i \in DOMAIN subset |-> NoneSlot]
    /\ UNCHANGED <<jobs_input, start_line, end_line, checkpoint_interval,
                   completed_count, output_file>>
    /\ UNCHANGED <<matchVars, jobVars, submitVars, rateVars, callVars>>

RangeNext == SelectRange \/ BatchNext

InitRange ==
    RangeInit /\ MatchIdle /\ JobIdle /\ SubmitIdle /\ RateIdle /\ CallIdle

SpecRange == InitRange /\ [][RangeNext]_vars

\* the range that is to be processed, from the arguments alone: none when
\* start is negative, not below the number of jobs, or not below the end
\* (the given end, the number of jobs when none is given or the given one
\* is beyond it), else the positions start..end-1, counted from 0
StatedRange ==
    LET total == Len(jobs_input)
        stop == IF end_line = <<>> THEN total
                ELSE IF end_line[1] > total THEN total ELSE end_line[1]
    IN  IF start_line < 0 \/ start_line >= total \/ start_line >= stop
        THEN {}
        ELSE start_line..(stop - 1)

\* C30: once the range is checked, a run with an invalid range has returned
\* with no job dispatched, no request made and nothing written, and stays
\* so; a run with a valid one has slot p hold the job at position
\* start + p - 1 of the list, for each position of start..end-1 and no
\* other, and its final result set has these jobs' records in that order
C30_RangeChecked ==
    main \notin {"idle", "loaded"} =>
        IF StatedRange = {}
        THEN /\ main = "rejected"
             /\ jobs_subset = <<>>
             /\ future = <<>>
             /\ fetch_count = <<>>
             /\ validated_jobs = <<>>
             /\ output_file = <<>>
        ELSE /\ main # "rejected"
             /\ Len(jobs_subset) = Cardinality(StatedRange)
             /\ DOMAIN future = DOMAIN jobs_subset
             /\ \A p \in DOMAIN jobs_subset :
                   /\ start_line + p - 1 \in StatedRange
                   /\ jobs_subset[p].primer_id
                         = jobs_input[start_line + p].primer_id
             /\ main = "finished" =>
                   LET final == output_file[Len(output_file)]
                   IN  /\ final.kind = "final"
                       /\ Len(final.content) = Cardinality(StatedRange)
                       /\ \A p \in DOMAIN final.content :
                             /\ final.content[p] # NoneJob
                             /\ final.content[p].primer_id
                                   = jobs_input[start_line + p].primer_id

\* C30 witness: the end given is beyond the list, the start is 1, and the
\* run finished with the records of all jobs but the first
C30_Witness ==
    /\ main = "finished"
    /\ start_line = 1
    /\ end_line = <<NumJobs + 1>>
    /\ Len(jobs_input) = NumJobs
    /\ Len(output_file[Len(output_file)].content) = NumJobs - 1
    /\ output_file[Len(output_file)].content[1].primer_id = 2
    /\ \A p \in DOMAIN fetch_count :
          fetch_count[p] = IF p = 2 THEN 0 ELSE 1

\* a start equal to the end given: the run has returned with nothing done
C30_RejectedReached ==
    /\ main = "rejected"
    /\ Len(jobs_input) = NumJobs
    /\ start_line = 1
    /\ end_line = <<1>>
    /\ output_file = <<>>
    /\ future = <<>>

---------------------------------------------------------------------------
(* PrimerBlastSubmitter *)

_determine_product_size_range_inclusive(product_size) ==
    IF product_size <= 150 THEN <<100, 200>>
    ELSE IF product_size <= 200 THEN <<150, 200>>
    ELSE <<300, 500>>

\* lines 28-34: (min_size, max_size)
_determine_product_size_range(product_size) ==
    IF product_size < 150 THEN <<100, 200>>
    ELSE IF product_size <= 200 THEN <<150, 200>>
    ELSE <<300, 500>>

---------------------------------------------------------------------------
(* Calls of _determine_product_size_range on two product sizes *)

MaxProductSize == 205

SizeRangeInit ==
    /\ r_sizes \in (0..MaxProductSize) \X (0..MaxProductSize)
    /\ r_bands = <<>>
    /\ x_html = <<>>
    /\ x_result = <<>>
    /\ s_row_data = <<>>
    /\ s_response = <<>>
    /\ s_result = <<>>

SizeRangeCall ==
    /\ r_bands = <<>>
    /\ r_bands' = <<_determine_product_size_range(r_sizes[1]),
                    _determine_product_size_range(r_sizes[2])>>
    /\ UNCHANGED <<r_sizes, x_html, x_result, s_row_data, s_response,
                   s_result>>
    /\ UNCHANGED <<matchVars, jobVars, batchVars, submitVars, rateVars>>

InitSizeRange ==
    SizeRangeInit /\ MatchIdle /\ JobIdle /\ BatchIdle /\ SubmitIdle /\ RateIdle

SpecSizeRange == InitSizeRange /\ [][SizeRangeCall]_vars

\* the band the size-band mapping is stated to select
StatedBand(product_size) ==
    CASE product_size < 150 -> <<100, 200>>
      [] product_size >= 150 /\ product_size <= 200 -> <<150, 200>>
      [] product_size > 200 -> <<300, 500>>

Width(band) == band[2] - band[1]

BandsAsStated ==
    /\ r_bands[1] = StatedBand(r_sizes[1])
    /\ r_bands[2] = StatedBand(r_sizes[2])

\* C21 as stated: the bands are (100,200) below 150, (150,200) from 150 to
\* 200 and (300,500) above 200, and of two product sizes the smaller gets a
\* band no wider than the larger
C21_SmallerNoWider ==
    r_bands # <<>> =>
        /\ BandsAsStated
        /\ r_sizes[1] < r_sizes[2] => Width(r_bands[1]) <= Width(r_bands[2])

\* C21: the bands are (100,200) below 150, (150,200) from 150 to 200 and
\* (300,500) above 200; of two product sizes the smaller gets a band whose
\* lower and upper limit are no greater than those of the larger's band,
\* and no wider unless the smaller is below 150 and the larger is from 150
\* to 200 (widths 100 and 50)
C21_BandsRiseWithSize ==
    r_bands # <<>> =>
        /\ BandsAsStated
        /\ r_sizes[1] < r_sizes[2] =>
              /\ r_bands[1][1] <= r_bands[2][1]
              /\ r_bands[1][2] <= r_bands[2][2]
              /\ (Width(r_bands[1]) > Width(r_bands[2]))
                    <=> (r_sizes[1] < 150 /\ r_sizes[2] >= 150
                         /\ r_sizes[2] <= 200)

\* C21 witness: sizes 149 and 150 got the bands (100,200) and (150,200),
\* the smaller size the wider band
C21_Witness ==
    /\ r_sizes = <<149, 150>>
    /\ r_bands = << <<100, 200>>, <<150, 200>> >>
    /\ Width(r_bands[1]) > Width(r_bands[2])

\* The body of a submission response is a sequence of tokens: a meta
\* refresh marker with its URL (key is the job_key=... part of the URL,
\* NoneStr when it has none), a hidden input named job_key, in either
\* attribute order, a "JOB ID: key" label, or other text.
Meta(url, key) == [kind |-> "meta", url |-> url, key |-> key]
Input(order, key) == [kind |-> "input", order |-> order, key |-> key]
Label(key) == [kind |-> "label", key |-> key]

\* re.search(pattern, html_content): the first token the pattern matches
\* (its position, 0 when there is none); a pattern is the set of tokens
\* it matches
FirstWhere(html, pattern) ==
    IF \E i \in DOMAIN html : html[i] \in pattern
    THEN CHOOSE i \in DOMAIN html :
            html[i] \in pattern /\ \A j \in 1..(i - 1) : html[j] \notin pattern
    ELSE 0

\* f"{self.submit_url}?job_key={job_key}"
BuiltUrl(job_key) == <<"submit_url?job_key=">> \o job_key

\* .replace('&amp;', '&') on a URL
unescape(url) == [i \in DOMAIN url |-> IF url[i] = "&amp;" THEN "&" ELSE url[i]]

ExtractJobLastWins(html) ==
    LET tokens == {html[i] : i \in DOMAIN html}
        m == FirstWhere(html, {t \in tokens : t.kind = "meta"})
        url0 == IF m = 0 THEN NoneStr ELSE unescape(html[m].url)
        key0 == IF m = 0 THEN NoneStr ELSE html[m].key
        i1 == FirstWhere(html, {t \in tokens : t.kind = "input"
                                             /\ t.order = "name_value"})
        i2 == IF i1 # 0 THEN i1
              ELSE FirstWhere(html, {t \in tokens : t.kind = "input"
                                                  /\ t.order = "value_name"})
        key1 == IF i2 # 0 THEN html[i2].key ELSE key0
        l == FirstWhere(html, {t \in tokens : t.kind = "label"})
        key2 == IF l # 0 THEN html[l].key ELSE key1
        url2 == IF Truthy(key2) /\ ~Truthy(url0) THEN BuiltUrl(key2)
                ELSE url0
    IN  [job_key |-> key2, results_url |-> url2]

ExtractJobNoBuiltUrl(html) ==
    LET tokens == {html[i] : i \in DOMAIN html}
        m == FirstWhere(html, {t \in tokens : t.kind = "meta"})
        url0 == IF m = 0 THEN NoneStr ELSE unescape(html[m].url)
        key0 == IF m = 0 THEN NoneStr ELSE html[m].key
        i1 == FirstWhere(html, {t \in tokens : t.kind = "input"
                                             /\ t.order = "name_value"})
        i2 == IF i1 # 0 THEN i1
              ELSE FirstWhere(html, {t \in tokens : t.kind = "input"
                                                  /\ t.order = "value_name"})
        key1 == IF Truthy(key0) THEN key0
                ELSE IF i2 # 0 THEN html[i2].key ELSE key0
        l == FirstWhere(html, {t \in tokens : t.kind = "label"})
        key2 == IF Truthy(key1) THEN key1
                ELSE IF l # 0 THEN html[l].key ELSE key1
        url2 == url0
    IN  [job_key |-> key2, results_url |-> url2]

\* lines 108-139: [job_key, results_url] from the response body
ExtractJob(html) ==
    LET tokens == {html[i] : i \in DOMAIN html}
        m == FirstWhere(html, {t \in tokens : t.kind = "meta"})
        url0 == IF m = 0 THEN NoneStr ELSE unescape(html[m].url)
        key0 == IF m = 0 THEN NoneStr ELSE html[m].key
        i1 == FirstWhere(html, {t \in tokens : t.kind = "input"
                                             /\ t.order = "name_value"})
        i2 == IF i1 # 0 THEN i1
              ELSE FirstWhere(html, {t \in tokens : t.kind = "input"
                                                  /\ t.order = "value_name"})
        key1 == IF Truthy(key0) THEN key0
                ELSE IF i2 # 0 THEN html[i2].key ELSE key0
        l == FirstWhere(html, {t \in tokens : t.kind = "label"})
        key2 == IF Truthy(key1) THEN key1
                ELSE IF l # 0 THEN html[l].key ELSE key1
        url2 == IF Truthy(key2) /\ ~Truthy(url0) THEN BuiltUrl(key2)
                ELSE url0
    IN  [job_key |-> key2, results_url |-> url2]

\* what one call did: result_info, or an exception
Submitted(result_info) == [raised |-> FALSE, result_info |-> result_info]
SubmitRaised == [raised |-> TRUE, result_info |-> NoneJob]

submit_job_post_raises(row_data, resp) ==
    IF IntRaises(row_data.product_size) \/ ~resp.ok THEN SubmitRaised
    ELSE Submitted(
             [primer_id |-> row_data.primer_id,
              accession |-> row_data.accession,
              forward_primer |-> row_data.left_primer_seq,
              reverse_primer |-> row_data.right_primer_seq,
              product_size |-> int(row_data.product_size),
              left_primer_start |-> Get(row_data, "left_primer_start"),
              right_primer_start |-> Get(row_data, "right_primer_start"),
              job_key |-> ExtractJob(resp.text).job_key,
              results_url |-> ExtractJob(resp.text).results_url,
              submission_time |-> <<"now">>,
              status |-> IF Truthy(ExtractJob(resp.text).job_key)
                         THEN "submitted" ELSE "failed_extraction"])

\* submit_job, lines 36-148
submit_job(row_data, resp) ==
    IF IntRaises(row_data.product_size) THEN SubmitRaised
    ELSE
    LET result_info ==
            [primer_id |-> row_data.primer_id,
             accession |-> row_data.accession,
             forward_primer |-> row_data.left_primer_seq,
             reverse_primer |-> row_data.right_primer_seq,
             product_size |-> int(row_data.product_size),
             left_primer_start |-> Get(row_data, "left_primer_start"),
             right_primer_start |-> Get(row_data, "right_primer_start"),
             job_key |-> NoneStr,
             results_url |-> NoneStr,
             submission_time |-> <<"now">>,
             status |-> "init"]
    IN  IF ~resp.ok
        THEN Submitted([status |-> "failed", error |-> <<"error">>]
                       @@ result_info)
        ELSE LET job == ExtractJob(resp.text)
             IN  Submitted(
                     [job_key |-> job.job_key,
                      results_url |-> job.results_url,
                      status |-> IF Truthy(job.job_key) THEN "submitted"
                                 ELSE "failed_extraction"]
                     @@ result_info)


---------------------------------------------------------------------------
(* Calls of submit_job on a row *)

\* the matches of the three patterns a submission response is made of: a
\* refresh marker whose URL has a job_key, one whose URL has none, the
\* hidden field in either attribute order, the label, other text
SubmitTokens ==
    { Meta(<<"u", "&amp;", "k", "0">>, <<"k", "0">>),
      Meta(<<"u">>, NoneStr),
      Input("name_value", <<"k", "1">>),
      Input("value_name", <<"k", "1", "b">>),
      Label(<<"k", "2">>),
      Text("html") }

SubmitResponses ==
    {Failed} \cup { Page(html) :
                      html \in UNION { [1..n -> SubmitTokens] :
                                         n \in 0..MaxTokens } }

\* a row of the input table; an empty product_size cell is read as NaN
Row(id, size) ==
    [primer_id |-> id,
     accession |-> <<"acc">>,
     left_primer_seq |-> <<"A", "T">>,
     right_primer_seq |-> <<"C", "G">>,
     product_size |-> size,
     left_primer_start |-> 1,
     right_primer_start |-> 5]

NotSubmitted == [called |-> FALSE]

SubmitJobInit ==
    /\ s_row_data \in {Row(1, 150), Row(1, NaN)}
    /\ s_response \in SubmitResponses
    /\ s_result = NotSubmitted
    /\ x_html = <<>>
    /\ x_result = <<>>
    /\ r_sizes = <<>>
    /\ r_bands = <<>>

\* submit_job(row_data) with the response its POST meets
SubmitJobCall ==
    /\ ~s_result.called
    /\ s_result' = Put(submit_job(s_row_data, s_response), "called", TRUE)
    /\ UNCHANGED <<s_row_data, s_response, x_html, x_result, r_sizes,
                   r_bands>>
    /\ UNCHANGED <<matchVars, jobVars, batchVars, submitVars, rateVars>>

InitSubmitJob ==
    SubmitJobInit /\ MatchIdle /\ JobIdle /\ BatchIdle /\ SubmitIdle /\ RateIdle

SpecSubmitJob == InitSubmitJob /\ [][SubmitJobCall]_vars

\* the position of the first token of a page that satisfies a test, given
\* the set of positions that do
First(positions) == CHOOSE i \in positions : \A j \in positions : i <= j

\* what the redirect-style marker yields: the job_key of the URL of the
\* first marker
MetaYields(html) ==
    LET at == {i \in DOMAIN html : html[i].kind = "meta"}
    IN  IF at = {} THEN NoneStr ELSE html[First(at)].key

\* what the hidden form field yields: name before value first
FieldYields(html) ==
    LET nv == {i \in DOMAIN html : html[i].kind = "input"
                                     /\ html[i].order = "name_value"}
        vn == {i \in DOMAIN html : html[i].kind = "input"
                                     /\ html[i].order = "value_name"}
    IN  IF nv # {} THEN html[First(nv)].key
        ELSE IF vn # {} THEN html[First(vn)].key
        ELSE NoneStr

\* what the plain-text label yields
LabelYields(html) ==
    LET at == {i \in DOMAIN html : html[i].kind = "label"}
    IN  IF at = {} THEN NoneStr ELSE html[First(at)].key

\* the identifier of the first strategy that yields one, null when none does
FirstYield(html) ==
    IF MetaYields(html) # NoneStr THEN MetaYields(html)
    ELSE IF FieldYields(html) # NoneStr THEN FieldYields(html)
    ELSE LabelYields(html)

\* C17: a call of submit_job whose POST brings a response does not raise
\* and records as job_key the identifier of the first of the three
\* strategies (marker, hidden field, label) that yields one, with status
\* 'submitted'; when none yields one, job_key is null and the status is
\* 'failed_extraction'
C17_FirstStrategyWins ==
    (s_result.called /\ ~IntRaises(s_row_data.product_size)
     /\ s_response.ok) =>
        /\ ~s_result.raised
        /\ s_result.result_info.job_key = FirstYield(s_response.text)
        /\ s_result.result_info.status =
              IF FirstYield(s_response.text) = NoneStr
              THEN "failed_extraction" ELSE "submitted"

\* C17 witness: the response has a marker whose URL carries no job_key, a
\* hidden field and a label, in the opposite order; the hidden field's
\* identifier is recorded
C17_Witness ==
    /\ s_result.called
    /\ ~s_result.raised
    /\ s_response.ok
    /\ s_response.text = <<Label(<<"k", "2">>),
                           Input("name_value", <<"k", "1">>),
                           Meta(<<"u">>, NoneStr)>>
    /\ s_result.result_info.job_key = <<"k", "1">>
    /\ s_result.result_info.status = "submitted"

\* no strategy yields an identifier: 'failed_extraction', job_key null
C17_NoneYields ==
    /\ s_result.called
    /\ ~s_result.raised
    /\ s_response.ok
    /\ s_response.text = <<Text("html"), Meta(<<"u">>, NoneStr)>>
    /\ s_result.result_info.job_key = NoneStr
    /\ s_result.result_info.status = "failed_extraction"

\* C29: a record submit_job returns has status 'submitted',
\* 'failed_extraction' or 'failed'; the status is 'submitted' exactly when
\* job_key is not null; a job_key that is not null goes with a results_url
\* that is not null; and with status 'failed' both are null
C29_RecordConsistent ==
    (s_result.called /\ ~s_result.raised) =>
        LET result_info == s_result.result_info
        IN  /\ result_info.status
                  \in {"submitted", "failed_extraction", "failed"}
            /\ (result_info.status = "submitted")
                  <=> (result_info.job_key # NoneStr)
            /\ result_info.job_key # NoneStr
                  => result_info.results_url # NoneStr
            /\ result_info.status = "failed"
                  => /\ result_info.job_key = NoneStr
                     /\ result_info.results_url = NoneStr

\* C29 witness: the response has the label alone; the record has its
\* identifier, the URL built from it, and status 'submitted'
C29_Witness ==
    /\ s_result.called
    /\ ~s_result.raised
    /\ s_response = Page(<<Text("html"), Label(<<"k", "2">>)>>)
    /\ s_result.result_info.job_key = <<"k", "2">>
    /\ s_result.result_info.results_url = BuiltUrl(<<"k", "2">>)
    /\ s_result.result_info.status = "submitted"

\* the POST failed: status 'failed', job_key and results_url null
C29_FailedReached ==
    /\ s_result.called
    /\ ~s_result.raised
    /\ s_response = Failed
    /\ s_result.result_info.status = "failed"
    /\ s_result.result_info.job_key = NoneStr
    /\ s_result.result_info.results_url = NoneStr

\* a refresh marker whose URL has no job_key and nothing else: the record
\* has the URL, no job_key, and status 'failed_extraction'
C29_UrlWithoutKeyReached ==
    /\ s_result.called
    /\ ~s_result.raised
    /\ s_result.result_info.status = "failed_extraction"
    /\ s_result.result_info.job_key = NoneStr
    /\ s_result.result_info.results_url = <<"u">>

---------------------------------------------------------------------------
(* submit_primer_jobs *)

SubmitWorkers == 8
SaveEvery == 10

BatchRows(i) == {Row(i, 150), Row(i, NaN)}

SubmitBatchResponses ==
    { Failed,
      Page(<<Meta(Url, JobKey)>>),
      Page(<<Text("html")>>) }

SubmitFinished(r) == submit_future[r] \in {"returned", "raised", "collected"}

SubmitInit ==
    /\ df_subset \in { rows \in [1..NumJobs -> UNION { BatchRows(i) : i \in 1..NumJobs }] :
                         \A i \in 1..NumJobs : rows[i] \in BatchRows(i) }
    /\ submit_future = [r \in 1..NumJobs |-> "pending"]
    /\ posted = [r \in 1..NumJobs |-> Failed]
    /\ submit_result = [r \in 1..NumJobs |-> NoneJob]
    /\ completed_jobs = <<>>
    /\ count = 0
    /\ submit_main = "collect"
    /\ jobs_file = << <<>> >>

\* a pool thread takes the next work item off the queue
SubmitStart(r) ==
    /\ submit_main # "idle"
    /\ submit_future[r] = "pending"
    /\ \A q \in 1..(r - 1) : submit_future[q] # "pending"
    /\ Cardinality({q \in 1..NumJobs : submit_future[q] = "running"})
          < SubmitWorkers
    /\ submit_future' = [submit_future EXCEPT ![r] = "running"]
    /\ UNCHANGED <<df_subset, posted, submit_result, completed_jobs, count,
                   submit_main, jobs_file>>
    /\ UNCHANGED <<matchVars, jobVars, batchVars, rateVars, callVars>>

\* submit_job(row) runs to its return or to an exception
SubmitFinish(r) ==
    /\ submit_main # "idle"
    /\ submit_future[r] = "running"
    /\ \E resp \in SubmitBatchResponses :
          LET out == submit_job(df_subset[r], resp)
          IN  /\ ~out.raised \/ resp = Failed
              /\ submit_result' = [submit_result EXCEPT ![r] = out.result_info]
              /\ submit_future' = [submit_future EXCEPT ![r] =
                                      IF out.raised THEN "raised"
                                      ELSE "returned"]
              /\ posted' = [posted EXCEPT ![r] = resp]
    /\ UNCHANGED <<df_subset, completed_jobs, count, submit_main, jobs_file>>
    /\ UNCHANGED <<matchVars, jobVars, batchVars, rateVars, callVars>>

\* one round of the as_completed loop, lines 182-197, for a future whose
\* result() returns
SubmitCollect(r) ==
    /\ submit_main = "collect"
    /\ submit_future[r] = "returned"
    /\ count' = count + 1
    /\ completed_jobs' = Append(completed_jobs, submit_result[r])
    /\ jobs_file' = IF count' % SaveEvery = 0 \/ count' = Len(df_subset)
                    THEN Append(jobs_file, completed_jobs')
                    ELSE jobs_file
    /\ submit_future' = [submit_future EXCEPT ![r] = "collected"]
    /\ UNCHANGED <<df_subset, posted, submit_result, submit_main>>
    /\ UNCHANGED <<matchVars, jobVars, batchVars, rateVars, callVars>>

\* line 183 for a future whose result() re-raises the worker's exception
SubmitCollectRaised(r) ==
    /\ submit_main = "collect"
    /\ submit_future[r] = "raised"
    /\ submit_future' = [submit_future EXCEPT ![r] = "collected"]
    /\ submit_main' = "unwinding"
    /\ UNCHANGED <<df_subset, posted, submit_result, completed_jobs, count,
                   jobs_file>>
    /\ UNCHANGED <<matchVars, jobVars, batchVars, rateVars, callVars>>

\* the pool has shut down and the exception leaves submit_primer_jobs
SubmitAbort ==
    /\ submit_main = "unwinding"
    /\ \A r \in 1..NumJobs : SubmitFinished(r)
    /\ submit_main' = "aborted"
    /\ UNCHANGED <<df_subset, submit_future, posted, submit_result,
                   completed_jobs, count, jobs_file>>
    /\ UNCHANGED <<matchVars, jobVars, batchVars, rateVars, callVars>>

\* line 199, after the loop has yielded every future
SubmitReturn ==
    /\ submit_main = "collect"
    /\ \A r \in 1..NumJobs : submit_future[r] = "collected"
    /\ submit_main' = "finished"
    /\ UNCHANGED <<df_subset, submit_future, posted, submit_result,
                   completed_jobs, count, jobs_file>>
    /\ UNCHANGED <<matchVars, jobVars, batchVars, rateVars, callVars>>

SubmitNext ==
    \/ \E r \in 1..NumJobs : SubmitStart(r)
    \/ \E r \in 1..NumJobs : SubmitFinish(r)
    \/ \E r \in 1..NumJobs : SubmitCollect(r)
    \/ \E r \in 1..NumJobs : SubmitCollectRaised(r)
    \/ SubmitAbort
    \/ SubmitReturn

---------------------------------------------------------------------------
(* A run of one of the two scripts *)

InitRun ==
    /\ MatchIdle
    /\ JobIdle
    /\ RateIdle
    /\ CallIdle
    /\ \/ BatchInit /\ SubmitIdle
       \/ SubmitInit /\ BatchIdle

Next == BatchNext \/ SubmitNext

Spec == InitRun /\ [][Next]_vars

---------------------------------------------------------------------------
(* validate_all_jobs: the claims *)

Checkpoints == SelectSeq(output_file, LAMBDA w : w.kind = "checkpoint")

\* the position of a record in the input batch
PositionOf(record) ==
    CHOOSE i \in 1..NumJobs : jobs_input[i].primer_id = record.primer_id

\* C5: whatever the order in which the workers complete, the final result
\* list has the record of input job i at position i, for every i
C5_FinalOrderIsInputOrder ==
    /\ main # "idle" =>
          \A i \in 1..NumJobs : validated_jobs[i] \in {NoneSlot, i}
    /\ main = "finished" =>
          LET final == output_file[Len(output_file)]
          IN  /\ final.kind = "final"
              /\ Len(final.content) = NumJobs
              /\ \A i \in 1..NumJobs :
                    /\ final.content[i] # NoneJob
                    /\ final.content[i].primer_id = jobs_input[i].primer_id

\* C5 witness: a finished run in which job 2 was collected first and job 1
\* last
C5_Witness ==
    /\ main = "finished"
    /\ \E p, q \in DOMAIN output_file :
          /\ output_file[p].kind = "checkpoint"
          /\ output_file[p].collected = {2}
          /\ output_file[q].kind = "checkpoint"
          /\ output_file[q].collected = 2..NumJobs

\* C6: with interval k a checkpoint is written exactly when the count of
\* collected completions reaches a positive multiple of k: at every moment
\* the checkpoints written are those of the counts k, 2k, ... up to the
\* current count, and a finished run of n jobs has written n \div k of them
C6_CheckpointAtMultiples ==
    /\ main # "idle" =>
          /\ Len(Checkpoints) = completed_count \div checkpoint_interval
          /\ \A p \in DOMAIN Checkpoints :
                Checkpoints[p].count = p * checkpoint_interval
    /\ main = "finished" =>
          Len(Checkpoints) = NumJobs \div checkpoint_interval

\* C6 witness: a finished run with interval 2 and an odd number of jobs
\* wrote a checkpoint at count 2 and none at the last count
C6_Witness ==
    /\ main = "finished"
    /\ checkpoint_interval = 2
    /\ completed_count % 2 = 1
    /\ Len(Checkpoints) >= 1
    /\ Checkpoints[1].count = 2
    /\ \A p \in DOMAIN Checkpoints : Checkpoints[p].count # completed_count

\* C7: a checkpoint written at count c holds exactly c records: the jobs
\* collected so far, each with its validation_status, in their original
\* relative order, and no null placeholder
C7_CheckpointHoldsCollected ==
    \A p \in DOMAIN Checkpoints :
        LET w == Checkpoints[p]
        IN  /\ Len(w.content) = w.count
            /\ Cardinality(w.collected) = w.count
            /\ \A q \in DOMAIN w.content : w.content[q] # NoneJob
            /\ \A q \in DOMAIN w.content :
                  "validation_status" \in DOMAIN w.content[q]
            /\ {PositionOf(w.content[q]) : q \in DOMAIN w.content}
                  = w.collected
            /\ \A q, r \in DOMAIN w.content :
                  q < r => PositionOf(w.content[q]) < PositionOf(w.content[r])

\* C7 witness: a checkpoint written while an earlier job was still
\* outstanding, holding the two later jobs only
C7_Witness ==
    \E p \in DOMAIN Checkpoints :
        /\ Checkpoints[p].count = 2
        /\ Checkpoints[p].collected = {2, 3}
        /\ Len(Checkpoints[p].content) = 2
        /\ future[1] = "running"

\* C8: the failure of one job never aborts the batch: a run that has ended
\* has written the final result set, which holds a record with a status for
\* every job
C8_FailureNeverAborts ==
    /\ main \in {"finished", "aborted"} =>
          /\ output_file # <<>>
          /\ LET final == output_file[Len(output_file)]
             IN  /\ final.kind = "final"
                 /\ Len(final.content) = NumJobs
                 /\ \A i \in 1..NumJobs :
                       /\ final.content[i] # NoneJob
                       /\ "validation_status" \in DOMAIN final.content[i]
    /\ submit_main \in {"finished", "aborted"} =>
          LET final == jobs_file[Len(jobs_file)]
          IN  /\ Len(final) = NumJobs
              /\ \A r \in 1..NumJobs : "status" \in DOMAIN final[r]



\* the job issues a request for its result page
Requests(job) ==
    Truthy(GetStr(job, "job_key")) /\ Truthy(GetStr(job, "results_url"))

\* C9: an error while fetching a job's result page puts 'fetch_failed' on
\* that record and changes nothing else of it, the worker returns, and every
\* record is what its own input and its own response make it, whatever the
\* other jobs met; an error of a submission request likewise puts 'failed'
\* on that row's record only, with no job key and no results URL
C9_RequestErrorStaysOnRecord ==
    /\ main # "idle" =>
          \A i \in 1..NumJobs :
              /\ ~Finished(i) => jobs_subset[i] = jobs_input[i]
              /\ Finished(i) =>
                    jobs_subset[i]
                       = process_job(jobs_input[i], fetched[i]).job_info
              /\ (Finished(i) /\ Requests(jobs_input[i]) /\ ~fetched[i].ok) =>
                    /\ future[i] # "raised"
                    /\ jobs_subset[i] = Put(jobs_input[i], "validation_status",
                                            "fetch_failed")
    /\ submit_main # "idle" =>
          \A r \in 1..NumJobs :
              /\ ~SubmitFinished(r) => submit_result[r] = NoneJob
              /\ SubmitFinished(r) =>
                    submit_result[r]
                       = submit_job(df_subset[r], posted[r]).result_info
              /\ ( /\ SubmitFinished(r)
                   /\ ~IntRaises(df_subset[r].product_size)
                   /\ ~posted[r].ok ) =>
                    /\ submit_future[r] # "raised"
                    /\ submit_result[r] # NoneJob
                    /\ submit_result[r].status = "failed"
                    /\ submit_result[r].job_key = NoneStr
                    /\ submit_result[r].results_url = NoneStr
                    /\ submit_result[r].primer_id = df_subset[r].primer_id

\* C9 witness: a finished run in which the fetch of job 2 failed and jobs 1
\* and 3 passed
C9_Witness ==
    /\ main = "finished"
    /\ ~fetched[2].ok
    /\ jobs_subset[2].validation_status = "fetch_failed"
    /\ jobs_subset[1].validation_status = "pass"
    /\ jobs_subset[3].validation_status = "pass"


C23_FinalWriteLast ==
    /\ [](main # "idle" =>
            \A w \in DOMAIN output_file :
                output_file[w].kind = "final" =>
                    /\ w = Len(output_file)
                    /\ main = "finished"
                    /\ \A i \in DOMAIN future : future[i] = "collected"
                    /\ \A p \in DOMAIN validated_jobs :
                          validated_jobs[p] # NoneSlot
                    /\ Len(output_file[w].content) = Len(jobs_subset)
                    /\ \A p \in DOMAIN output_file[w].content :
                          output_file[w].content[p] = jobs_subset[p])
    /\ [][main # "idle" =>
            \A p \in DOMAIN validated_jobs :
                validated_jobs'[p] # validated_jobs[p] =>
                    /\ validated_jobs[p] = NoneSlot
                    /\ main = "collect"
                    /\ future[validated_jobs'[p]] = "returned"
                    /\ future'[validated_jobs'[p]] = "collected"
                    /\ completed_count' = completed_count + 1]_vars

\* C23 witness: the run wrote a checkpoint that lacks a record and then the
\* final result set with every record
C23_Witness ==
    /\ main = "finished"
    /\ Len(output_file) >= 2
    /\ output_file[1].kind = "checkpoint"
    /\ Len(output_file[1].content) < NumJobs
    /\ output_file[Len(output_file)].kind = "final"
    /\ Len(output_file[Len(output_file)].content) = NumJobs

\* the states of validate_job
ValidateJobStates ==
    {"no_url", "fetch_failed", "processing", "no_primers",
     "extraction_failed", "no_primer_data", "pass", "fail"}

\* every record of every result set the run has written carries a
\* validation_status of the given set
WrittenStatusesIn(states) ==
    \A w \in DOMAIN output_file :
        \A p \in DOMAIN output_file[w].content :
            LET record == output_file[w].content[p]
            IN  record # NoneJob =>
                    /\ "validation_status" \in DOMAIN record
                    /\ record.validation_status \in states

\* C19 as stated: every record of a result set written by a batch run
\* carries one of the eight states of validate_job
C19_EightStates == WrittenStatusesIn(ValidateJobStates)

\* C19: every record of every result set a batch run writes, checkpoint or
\* final, carries a validation_status that is one of the eight states of
\* validate_job or 'no_job_key', the status process_job gives a record
\* without job_key
C19_NineStates ==
    WrittenStatusesIn(ValidateJobStates \cup {"no_job_key"})

\* C19 witness: the final result set holds a record with 'no_job_key' next
\* to one with 'pass'
C19_Witness ==
    /\ main = "finished"
    /\ LET final == output_file[Len(output_file)].content
       IN  /\ \E p \in DOMAIN final :
                 final[p].validation_status = "no_job_key"
           /\ \E p \in DOMAIN final : final[p].validation_status = "pass"

\* C20: in a run of validate_all_jobs the result page of a job is requested
\* at most once, and a record that has a validation_status is not changed
\* again
C20_NoRetry ==
    /\ [](main # "idle" => \A i \in 1..NumJobs : fetch_count[i] <= 1)
    /\ [][main # "idle" =>
            \A i \in 1..NumJobs :
                "validation_status" \in DOMAIN jobs_subset[i]
                    => jobs_subset'[i] = jobs_subset[i]]_vars

\* C20 witness: the run is over; one job was left 'processing' and one
\* 'fetch_failed', each after one request
C20_Witness ==
    /\ main = "finished"
    /\ \E i, j \in 1..NumJobs :
          /\ jobs_subset[i].validation_status = "processing"
          /\ fetch_count[i] = 1
          /\ jobs_subset[j].validation_status = "fetch_failed"
          /\ fetch_count[j] = 1

---------------------------------------------------------------------------
(* PrimerBlastValidator._rate_limit and fetch_results under the pool *)

\* Time is counted in units of 0.17 s: the minimum interval of 0.34 s is 2.
MinInterval == 2
MaxTime == 7

Active(w) == rate_pc[w] \in {"waiting", "sleeping", "granted", "requesting"}

\* __init__ sets last_request_time to 0; time.time() is far beyond it
RateInit ==
    /\ now = MinInterval
    /\ last_request_time = 0
    /\ rate_limit_lock = 0
    /\ rate_pc = [w \in 1..NumJobs |-> "pending"]
    /\ wake = [w \in 1..NumJobs |-> 0]
    /\ granted = <<>>
    /\ request_start = [w \in 1..NumJobs |-> None]

\* the clock advances
Tick ==
    /\ rate_pc # <<>>
    /\ now < MaxTime
    /\ now' = now + 1
    /\ UNCHANGED <<last_request_time, rate_limit_lock, rate_pc, wake, granted,
                   request_start>>
    /\ UNCHANGED <<matchVars, jobVars, batchVars, submitVars, callVars>>

\* a pool thread takes the job and calls fetch_results, which calls
\* _rate_limit
RateStart(w) ==
    /\ rate_pc # <<>>
    /\ rate_pc[w] = "pending"
    /\ \A v \in 1..(w - 1) : rate_pc[v] # "pending"
    /\ Cardinality({v \in 1..NumJobs : Active(v)}) < MaxWorkers
    /\ rate_pc' = [rate_pc EXCEPT ![w] = "waiting"]
    /\ UNCHANGED <<now, last_request_time, rate_limit_lock, wake, granted,
                   request_start>>
    /\ UNCHANGED <<matchVars, jobVars, batchVars, submitVars, callVars>>

\* a sleep one unit short of the remaining time
SleepUntilHalf(current_time, last) ==
    IF current_time - last < MinInterval
    THEN current_time + (MinInterval - (current_time - last)) - 1
    ELSE current_time

\* lines 39-42: the time before which the thread does not go on, given the
\* clock it read and last_request_time
SleepUntil(current_time, last) ==
    IF current_time - last < MinInterval
    THEN current_time + (MinInterval - (current_time - last))
    ELSE current_time

\* lines 38-42: the lock is taken, the clock read and the sleep begun
Enter(w) ==
    /\ rate_pc # <<>>
    /\ rate_pc[w] = "waiting"
    /\ rate_limit_lock = 0
    /\ rate_limit_lock' = w
    /\ wake' = [wake EXCEPT ![w] = SleepUntil(now, last_request_time)]
    /\ rate_pc' = [rate_pc EXCEPT ![w] = "sleeping"]
    /\ UNCHANGED <<now, last_request_time, granted, request_start>>
    /\ UNCHANGED <<matchVars, jobVars, batchVars, submitVars, callVars>>

\* line 43 and the end of the with block: the sleep is over, the clock is
\* read again and stored, the lock released
Stamp(w) ==
    /\ rate_pc # <<>>
    /\ rate_pc[w] = "sleeping"
    /\ now >= wake[w]
    /\ last_request_time' = now
    /\ granted' = Append(granted, now)
    /\ rate_limit_lock' = 0
    /\ rate_pc' = [rate_pc EXCEPT ![w] = "granted"]
    /\ UNCHANGED <<now, wake, request_start>>
    /\ UNCHANGED <<matchVars, jobVars, batchVars, submitVars, callVars>>

\* line 50: requests.get starts, outside the lock
Request(w) ==
    /\ rate_pc # <<>>
    /\ rate_pc[w] = "granted"
    /\ request_start' = [request_start EXCEPT ![w] = now]
    /\ rate_pc' = [rate_pc EXCEPT ![w] = "requesting"]
    /\ UNCHANGED <<now, last_request_time, rate_limit_lock, wake, granted>>
    /\ UNCHANGED <<matchVars, jobVars, batchVars, submitVars, callVars>>

\* lines 50-55: the response or the exception arrives and the job ends
Respond(w) ==
    /\ rate_pc # <<>>
    /\ rate_pc[w] = "requesting"
    /\ rate_pc' = [rate_pc EXCEPT ![w] = "done"]
    /\ UNCHANGED <<now, last_request_time, rate_limit_lock, wake, granted,
                   request_start>>
    /\ UNCHANGED <<matchVars, jobVars, batchVars, submitVars, callVars>>

RateNext ==
    \/ Tick
    \/ \E w \in 1..NumJobs : RateStart(w)
    \/ \E w \in 1..NumJobs : Enter(w)
    \/ \E w \in 1..NumJobs : Stamp(w)
    \/ \E w \in 1..NumJobs : Request(w)
    \/ \E w \in 1..NumJobs : Respond(w)

InitRate ==
    RateInit /\ MatchIdle /\ JobIdle /\ BatchIdle /\ SubmitIdle /\ CallIdle

SpecRate == InitRate /\ [][RateNext]_vars

\* C22: at most one worker is between taking the lock of _rate_limit and
\* releasing it, it is the holder of the lock, and the values written to
\* last_request_time are in non-decreasing order, each at least the minimum
\* interval after the one before
C22_GrantsSpaced ==
    rate_pc # <<>> =>
        /\ Cardinality({w \in DOMAIN rate_pc : rate_pc[w] = "sleeping"}) <= 1
        /\ \A w \in DOMAIN rate_pc :
              rate_pc[w] = "sleeping" <=> rate_limit_lock = w
        /\ \A k \in 1..(Len(granted) - 1) :
              granted[k + 1] - granted[k] >= MinInterval
        /\ (granted # <<>> => last_request_time = granted[Len(granted)])

\* C22 witness: three grants, each exactly the minimum interval after the
\* one before (the second and third worker slept)
C22_Witness ==
    /\ rate_pc # <<>>
    /\ Len(granted) = 3
    /\ granted[2] - granted[1] = MinInterval
    /\ granted[3] - granted[2] = MinInterval

\* C10: any two result-page requests issued by fetch_results start at least
\* the minimum interval apart, for any number of workers and any interleaving
C10_RequestsSpaced ==
    \A v, w \in DOMAIN request_start :
        (v # w /\ request_start[v] # None /\ request_start[w] # None) =>
            \/ request_start[v] - request_start[w] >= MinInterval
            \/ request_start[w] - request_start[v] >= MinInterval

=============================================================================
